---- MODULE Spec2Model ----
(***************************************************************************)
(* PrintScore: the deterministic analyze handler (src/app/api/analyze/     *)
(* route.ts, first POST), as a state machine over the requests it serves.  *)
(* JavaScript numbers are IEEE-754 doubles; the arithmetic the handler     *)
(* does on them (the divisions, the weighted sum, Math.round, toFixed) is  *)
(* modelled exactly, with every result rounded to a 53-bit mantissa.       *)
(* The edge scan of the layout check is modelled twice, in one step and    *)
(* pixel by pixel; the vision handler (the second POST of the same file)   *)
(* is modelled from its print size on, with getBasicAnalysis.              *)
(* The page (src/app/page.tsx, Home) is modelled with its state, its file  *)
(* selection and its analyzeFile, each call of which sends one request to  *)
(* the handler; the drag highlight aside, what it only renders (the        *)
(* scroll, the PDF download) is left out.                                  *)
(***************************************************************************)
EXTENDS Integers, Sequences, FiniteSets, TLC

(***************************************************************************)
(* Natural numbers of any size: sequences of limbs (digits in base 2^10),  *)
(* most significant first.                                                 *)
(***************************************************************************)
LimbBase == 2 ^ 10

RECURSIVE ToLimbs(_)
ToLimbs(n) == IF n = 0 THEN <<>> ELSE Append(ToLimbs(n \div LimbBase), n % LimbBase)

RECURSIVE FromLimbs(_)
FromLimbs(b) ==
    IF b = <<>> THEN 0 ELSE LimbBase * FromLimbs(SubSeq(b, 1, Len(b) - 1)) + b[Len(b)]

RECURSIVE Strip(_)
Strip(b) == IF b # <<>> /\ Head(b) = 0 THEN Strip(Tail(b)) ELSE b

Zeros(k) == [i \in 1..k |-> 0]

PadLeft(b, k) == Zeros(k - Len(b)) \o b

\* the number of bits of a limb
RECURSIVE BitLen(_)
BitLen(n) == IF n = 0 THEN 0 ELSE 1 + BitLen(n \div 2)

\* a[1..i] + b[1..i] + carry, for a and b of equal length and a carry of 0 or 1
RECURSIVE AddFrom(_, _, _, _)
AddFrom(a, b, i, carry) ==
    IF i = 0 THEN ToLimbs(carry)
    ELSE IF a[i] + b[i] + carry >= LimbBase
         THEN Append(AddFrom(a, b, i - 1, 1), a[i] + b[i] + carry - LimbBase)
         ELSE Append(AddFrom(a, b, i - 1, 0), a[i] + b[i] + carry)

AddLimbs(a, b) ==
    LET n == IF Len(a) > Len(b) THEN Len(a) ELSE Len(b)
    IN  Strip(AddFrom(PadLeft(a, n), PadLeft(b, n), n, 0))

\* a * k for 0 <= k < 2^20: the partial products k * a[i], each in its place
RECURSIVE MulSmall(_, _)
MulSmall(a, k) ==
    IF a = <<>> THEN <<>>
    ELSE AddLimbs(Append(MulSmall(SubSeq(a, 1, Len(a) - 1), k), 0), ToLimbs(a[Len(a)] * k))

\* the bits of a limb that is not the first
LimbBits == BitLen(LimbBase) - 1

(***************************************************************************)
(* A finite non-negative double is limbs * LimbBase^q with at most 53      *)
(* significant bits; kept with no zero limb at either end, so that equal   *)
(* numbers are equal values. Zero is the empty sequence.                   *)
(***************************************************************************)
MantissaBits == 53

DZero == [m |-> <<>>, q |-> 0]

RECURSIVE Canonical(_, _)
Canonical(b, q) ==
    IF b = <<>> THEN DZero
    ELSE IF b[Len(b)] = 0 THEN Canonical(SubSeq(b, 1, Len(b) - 1), q + 1)
    ELSE [m |-> b, q |-> q]

\* round-to-nearest, ties-to-even, of limbs * LimbBase^q (plus a non-zero tail
\* below the last limb when sticky) to 53 significant bits
RoundNearestEven(limbs, q, sticky) ==
    LET b    == Strip(limbs)
        n    == Len(b)
        drop == BitLen(b[1]) + LimbBits * (n - 1) - MantissaBits
    IN  IF n = 0 THEN DZero
        ELSE IF drop <= 0 THEN Canonical(b, q)
        ELSE LET c     == n - (drop \div LimbBits)       \* the limb the cut falls in
                 u     == 2 ^ (drop % LimbBits)          \* the last kept bit, in b[c]
                 \* the first dropped bit and what lies below it
                 top   == IF u > 1 THEN b[c] % u ELSE b[c + 1]
                 half  == IF u > 1 THEN u \div 2 ELSE LimbBase \div 2
                 below == IF u > 1 THEN c + 1 ELSE c + 2
                 tail  == sticky \/ top % half # 0 \/ \E i \in below..n : b[i] # 0
                 odd   == (b[c] \div u) % 2 = 1
                 up    == top >= half /\ (tail \/ odd)
                 kept  == Append(SubSeq(b, 1, c - 1), b[c] - (b[c] % u))
                 mant  == IF up THEN AddLimbs(kept, <<u>>) ELSE kept
             IN  Canonical(mant, q + (n - c))

\* long division: the limbs of the quotient of r * LimbBase^k by d, appended to
\* acc one at a time, until acc has more than 53 significant bits to round
RECURSIVE DivLimbs(_, _, _, _)
DivLimbs(acc, frac, r, d) ==
    IF r = 0 \/ Len(Strip(acc)) > (MantissaBits \div LimbBits) + 1
    THEN [limbs |-> acc, frac |-> frac, rem |-> r]
    ELSE DivLimbs(Append(acc, (LimbBase * r) \div d), frac + 1, (LimbBase * r) % d, d)

\* a / b for integers 0 <= a < 2^31 and 0 < b <= 2^20, correctly rounded
DDivInt(a, b) ==
    LET quot == DivLimbs(ToLimbs(a \div b), 0, a % b, b)
    IN  RoundNearestEven(quot.limbs, 0 - quot.frac, quot.rem # 0)

\* n * x for an integer 0 <= n < 2^20 (an integer-valued double) and a double
\* x: the exact product, correctly rounded
DMulInt(n, x) == RoundNearestEven(MulSmall(x.m, n), x.q, FALSE)

\* x + y, correctly rounded
DAdd(x, y) ==
    IF x.m = <<>> THEN y
    ELSE IF y.m = <<>> THEN x
    ELSE LET q == IF x.q < y.q THEN x.q ELSE y.q
         IN  RoundNearestEven(AddLimbs(x.m \o Zeros(x.q - q), y.m \o Zeros(y.q - q)), q, FALSE)

\* floor(limbs * LimbBase^q), and whether the fraction is at least one half
IntPart(limbs, q) ==
    IF q >= 0 THEN FromLimbs(limbs \o Zeros(q))
    ELSE IF 0 - q >= Len(limbs) THEN 0
    ELSE FromLimbs(SubSeq(limbs, 1, Len(limbs) + q))

HalfOrMore(limbs, q) ==
    q < 0 /\ 0 - q <= Len(limbs) /\ limbs[Len(limbs) + q + 1] >= LimbBase \div 2

\* Math.floor in the place of Math.round
MathFloor(x) == IntPart(x.m, x.q)

\* Math.round(x): the nearest integer, ties towards +infinity
MathRound(x) == IntPart(x.m, x.q) + (IF HalfOrMore(x.m, x.q) THEN 1 ELSE 0)

\* x.toFixed(1), as the number n of tenths: "let n be an integer for which
\* n / 10 - x is as close to zero as possible; if there are two, the larger"
ToFixed1(x) ==
    LET t == MulSmall(x.m, 10)
    IN  IntPart(t, x.q) + (IF HalfOrMore(t, x.q) THEN 1 ELSE 0)

\* x >= n and x <= n for a double x and an integer n (a canonical double is an
\* integer exactly when its exponent is not negative)
DGeInt(x, n) == IntPart(x.m, x.q) >= n
DLeInt(x, n) == IntPart(x.m, x.q) < n \/ (IntPart(x.m, x.q) = n /\ x.q >= 0)

(***************************************************************************)
(* The uploaded file, as the handler sees it.                              *)
(*   name  file.name, as its segments between the dots                     *)
(*   type  file.type (the MIME type), as its segments between the slashes  *)
(*   size  file.size, in bytes                                             *)
(* What sharp makes of the file's bytes is the environment's answer at the *)
(* two calls of sharp: metadata() and resize().raw().toBuffer().           *)
(***************************************************************************)
\* how far around each threshold the inputs are drawn
Slack == 1

\* the side of the square edge samples the decoder hands back
SampleSide == 7

MiB == 1024 * 1024

Names ==
    { <<"poster", "png">>, <<"photo", "JPG">>, <<"scan", "jpeg">>, <<"flyer", "pdf">>,
      <<"logo", "svg">>, <<"draft", "">>, <<"README">> }

Types == { <<"image", "png">>, <<"application", "pdf">>, <<"text", "plain">> }

Around(anchors) == { a + d : a \in anchors, d \in (0 - Slack)..Slack } \cap Nat

Sizes == Around({5 * MiB, 10 * MiB, 15 * MiB}) \cup {0, 3 * MiB, 20 * MiB}

Files == [name : Names, type : Types, size : Sizes]

DimAnchors ==
    { <<2400, 3000>>, <<2000, 2000>>, <<2000, 1000>>, <<1000, 1000>>, <<0, 0>>,
      <<3000, 4500>>, <<4500, 2400>> }

Dims == { <<d[1] + dw, d[2] + dh>> : d \in DimAnchors, dw \in (0 - Slack)..Slack,
                                      dh \in (0 - Slack)..Slack } \cap (Nat \X Nat)

\* the rejection of a sharp promise
SharpError == [error |-> "sharp"]

\* metadata(): width and height are optional fields of the result
MetadataResults ==
    { [width |-> d[1], height |-> d[2]] : d \in Dims } \cup { [format |-> "raw"], SharpError }

\* a raw sample of w by h pixels of c channels, white but for the listed pixels:
\* dark is a set of <<x, y, channel, value>>
Sample(w, h, c, dark) ==
    [ info |-> [width |-> w, height |-> h, channels |-> c],
      data |-> [ i \in 1..(w * h * c) |->
                   IF \E p \in dark : (p[2] * w + p[1]) * c + p[3] + 1 = i
                   THEN (CHOOSE p \in dark : (p[2] * w + p[1]) * c + p[3] + 1 = i)[4]
                   ELSE 255 ] ]

Samples ==
    { Sample(SampleSide, SampleSide, 3, {}),
      Sample(SampleSide, SampleSide, 3, {<<0, 0, 0, 0>>}),
      Sample(SampleSide, SampleSide, 4, {<<SampleSide - 1, 3, 2, 249>>}),
      Sample(SampleSide, SampleSide, 3, {<<3, 3, 1, 0>>}) }

SampleResults == Samples \cup {SharpError}

(***************************************************************************)
(* String operations of the handler, on the strings the inputs are made of *)
(***************************************************************************)
ToLowerCase(s) ==
    CASE s = "JPG" -> "jpg"
      [] s = "README" -> "readme"
      [] OTHER -> s

ToUpperCase(s) ==
    CASE s = "png" -> "PNG"
      [] s = "jpg" -> "JPG"
      [] s = "jpeg" -> "JPEG"
      [] s = "pdf" -> "PDF"
      [] s = "svg" -> "SVG"
      [] s = "readme" -> "README"
      [] s = "unknown" -> "UNKNOWN"
      [] OTHER -> s

\* file.name.split('.').pop()?.toLowerCase() || 'unknown'
FormatType(name) ==
    LET last == ToLowerCase(name[Len(name)])
    IN  IF last = "" THEN "unknown" ELSE last

\* file.type.startsWith('image/')
StartsWithImage(type) == Len(type) >= 2 /\ type[1] = "image"

\* the page on its side
PdfPageLandscape == [width |-> 3300, height |-> 2550]

\* the page assumed for a PDF: 8.5 x 11 inches at 300 DPI
PdfPage == [width |-> 2550, height |-> 3300]

\* metadata.width || 0
OrZero(rec, field) == IF field \in DOMAIN rec THEN rec[field] ELSE 0

(***************************************************************************)
(* The scoring arithmetic                                                  *)
(***************************************************************************)
target_dpi == 300
min_width_8x10 == 2400
min_height_8x10 == 3000

\* the literals 0.40, 0.30, 0.20 and 0.10, as the doubles nearest to them
W40 == DDivInt(40, 100)
W30 == DDivInt(30, 100)
W20 == DDivInt(20, 100)
W10 == DDivInt(10, 100)

\* nothing for less than a megapixel: 0 in the place of 20
ResolutionScoreZero(width, height) ==
    LET total_megapixels == DDivInt(width * height, 1000000)
    IN  IF width >= min_width_8x10 /\ height >= min_height_8x10 THEN 100
        ELSE IF DGeInt(total_megapixels, 4) THEN 85
        ELSE IF DGeInt(total_megapixels, 2) THEN 65
        ELSE IF DGeInt(total_megapixels, 1) THEN 45
        ELSE 0

\* the scores of the 4 and 2 megapixel clauses exchanged
ResolutionScoreSwapped(width, height) ==
    LET total_megapixels == DDivInt(width * height, 1000000)
    IN  IF width >= min_width_8x10 /\ height >= min_height_8x10 THEN 100
        ELSE IF DGeInt(total_megapixels, 4) THEN 65
        ELSE IF DGeInt(total_megapixels, 2) THEN 85
        ELSE IF DGeInt(total_megapixels, 1) THEN 45
        ELSE 20

\* the 8x10 grid met only when exceeded
ResolutionScoreStrict(width, height) ==
    LET total_megapixels == DDivInt(width * height, 1000000)
    IN  IF width > min_width_8x10 /\ height > min_height_8x10 THEN 100
        ELSE IF DGeInt(total_megapixels, 4) THEN 85
        ELSE IF DGeInt(total_megapixels, 2) THEN 65
        ELSE IF DGeInt(total_megapixels, 1) THEN 45
        ELSE 20

ResolutionScore(width, height) ==
    LET total_megapixels == DDivInt(width * height, 1000000)
    IN  IF width >= min_width_8x10 /\ height >= min_height_8x10 THEN 100
        ELSE IF DGeInt(total_megapixels, 4) THEN 85
        ELSE IF DGeInt(total_megapixels, 2) THEN 65
        ELSE IF DGeInt(total_megapixels, 1) THEN 45
        ELSE 20

\* the scores of the first two clauses exchanged
SizeScoreSwapped(size) ==
    LET size_mb == DDivInt(size, 1024 * 1024)
    IN  IF DLeInt(size_mb, 5) THEN 85
        ELSE IF DLeInt(size_mb, 10) THEN 100
        ELSE IF DLeInt(size_mb, 15) THEN 60
        ELSE 30

\* megabytes of 10^6 bytes in the place of 2^20
SizeScoreDecimal(size) ==
    LET size_mb == DDivInt(size, 1000 * 1000)
    IN  IF DLeInt(size_mb, 5) THEN 100
        ELSE IF DLeInt(size_mb, 10) THEN 85
        ELSE IF DLeInt(size_mb, 15) THEN 60
        ELSE 30

SizeScore(size) ==
    LET size_mb == DDivInt(size, 1024 * 1024)
    IN  IF DLeInt(size_mb, 5) THEN 100
        ELSE IF DLeInt(size_mb, 10) THEN 85
        ELSE IF DLeInt(size_mb, 15) THEN 60
        ELSE 30

\* an image taken as ready for print colours: 100 in the place of 70
ColorScoreFull(format) == IF format = "pdf" THEN 50 ELSE 100

\* the PDF branch left out
ColorScoreFlat(format) == 70

ColorScore(format) == IF format = "pdf" THEN 50 ELSE 70

\* "jpeg" left out of the raster tokens
FormatScoreNoJpeg(format) ==
    IF format = "png" \/ format = "jpg" THEN 100
    ELSE IF format = "pdf" THEN 90
    ELSE 50

\* the PDF branch left out
FormatScoreNoPdf(format) ==
    IF format = "png" \/ format = "jpg" \/ format = "jpeg" THEN 100
    ELSE 50

FormatScore(format) ==
    IF format = "png" \/ format = "jpg" \/ format = "jpeg" THEN 100
    ELSE IF format = "pdf" THEN 90
    ELSE 50

\* the format weight typed as 0.20: weights that sum to 1.10
TotalScoreHeavy(resolution, size, color, format) ==
    MathRound(DAdd(DAdd(DAdd(DMulInt(resolution, W40), DMulInt(size, W30)),
                        DMulInt(color, W20)),
                   DMulInt(format, W20)))

TotalScore(resolution, size, color, format) ==
    MathRound(DAdd(DAdd(DAdd(DMulInt(resolution, W40), DMulInt(size, W30)),
                        DMulInt(color, W20)),
                   DMulInt(format, W10)))

\* Great in the colour of Print-Ready
TierOfSharedColor(total) ==
    IF total >= 90 THEN
        [tier |-> "Print-Ready", tier_color |-> "#00D1C7",
         summary |-> "Your design is print-ready! Sharp, properly sized, and formatted correctly."]
    ELSE IF total >= 75 THEN
        [tier |-> "Great", tier_color |-> "#00D1C7",
         summary |-> "Your design looks good. Minor optimizations could help perfect it."]
    ELSE IF total >= 60 THEN
        [tier |-> "Needs Optimization", tier_color |-> "#F5A623",
         summary |-> "Your design needs some adjustments before printing for best results."]
    ELSE IF total >= 40 THEN
        [tier |-> "High Risk", tier_color |-> "#FF008C",
         summary |-> "Your design has significant issues that may cause print problems."]
    ELSE
        [tier |-> "Print Failure Likely", tier_color |-> "#6B7280",
         summary |-> "Your design will likely fail to print properly. Consider recreating at higher quality."]

\* exclusive lower bounds
TierOfExclusive(total) ==
    IF total > 90 THEN
        [tier |-> "Print-Ready", tier_color |-> "#00D1C7",
         summary |-> "Your design is print-ready! Sharp, properly sized, and formatted correctly."]
    ELSE IF total > 75 THEN
        [tier |-> "Great", tier_color |-> "#2DE2E6",
         summary |-> "Your design looks good. Minor optimizations could help perfect it."]
    ELSE IF total > 60 THEN
        [tier |-> "Needs Optimization", tier_color |-> "#F5A623",
         summary |-> "Your design needs some adjustments before printing for best results."]
    ELSE IF total > 40 THEN
        [tier |-> "High Risk", tier_color |-> "#FF008C",
         summary |-> "Your design has significant issues that may cause print problems."]
    ELSE
        [tier |-> "Print Failure Likely", tier_color |-> "#6B7280",
         summary |-> "Your design will likely fail to print properly. Consider recreating at higher quality."]

TierOf(total) ==
    IF total >= 90 THEN
        [tier |-> "Print-Ready", tier_color |-> "#00D1C7",
         summary |-> "Your design is print-ready! Sharp, properly sized, and formatted correctly."]
    ELSE IF total >= 75 THEN
        [tier |-> "Great", tier_color |-> "#2DE2E6",
         summary |-> "Your design looks good. Minor optimizations could help perfect it."]
    ELSE IF total >= 60 THEN
        [tier |-> "Needs Optimization", tier_color |-> "#F5A623",
         summary |-> "Your design needs some adjustments before printing for best results."]
    ELSE IF total >= 40 THEN
        [tier |-> "High Risk", tier_color |-> "#FF008C",
         summary |-> "Your design has significant issues that may cause print problems."]
    ELSE
        [tier |-> "Print Failure Likely", tier_color |-> "#6B7280",
         summary |-> "Your design will likely fail to print properly. Consider recreating at higher quality."]

(***************************************************************************)
(* The layout check                                                        *)
(***************************************************************************)
edgeThreshold == 3

\* the band as 3% of the side of the sample in the place of 3% of 100
edgePixelsOfSample == (SampleSide * edgeThreshold) \div 100

edgePixels == (100 * edgeThreshold) \div 100

GoodMargins == "Good margins detected. No bleed issues found."
EdgeCrowding == "Potential edge crowding detected. Consider adding safe margin or bleed area."

\* the loops over y and x, from pixel (x, y) on: TRUE at the first pixel of the
\* band with a channel below 250 (the break), FALSE when the rows run out.
\* data is the Buffer, its byte i at position i + 1 of the sequence
RECURSIVE ScanFrom(_, _, _, _)
ScanFrom(data, info, x, y) ==
    IF y >= info.height THEN FALSE
    ELSE IF x >= info.width THEN ScanFrom(data, info, 0, y + 1)
    ELSE IF /\ \/ x < edgePixels
               \/ x >= info.width - edgePixels
               \/ y < edgePixels
               \/ y >= info.height - edgePixels
            /\ LET idx == (y * info.width + x) * info.channels
                   r   == data[idx + 1]
                   g   == data[idx + 2]
                   b   == data[idx + 3]
               IN  r < 250 \/ g < 250 \/ b < 250
         THEN TRUE
         ELSE ScanFrom(data, info, x + 1, y)

EdgeActivity(sample) == ScanFrom(sample.data, sample.info, 0, 0)

(***************************************************************************)
(* The vision handler (the second POST of the file): its fallback analysis *)
(* for a file that is not an image                                         *)
(***************************************************************************)
\* the score by the core's table: 100 for the 8x10 grid, 85 from 4 megapixels
getBasicAnalysisCoreScores(width, height, format, fileSize) ==
    LET megapixels == DDivInt(width * height, 1000000)
        ladder ==
            IF width >= 2400 /\ height >= 3000 THEN
                [score |-> 100, tier |-> "Great",
                 summary |-> "Good resolution for standard prints. Recommend using AI analysis for detailed assessment."]
            ELSE IF DGeInt(megapixels, 4) THEN
                [score |-> 85, tier |-> "Great",
                 summary |-> "Basic analysis performed. For detailed print assessment, upload an image file."]
            ELSE IF DGeInt(megapixels, 2) THEN
                [score |-> 65, tier |-> "Needs Optimization",
                 summary |-> "Moderate resolution. May appear soft on larger prints."]
            ELSE IF DGeInt(megapixels, 1) THEN
                [score |-> 45, tier |-> "High Risk",
                 summary |-> "Low resolution. Not suitable for quality prints."]
            ELSE
                [score |-> 20, tier |-> "Print Failure Likely",
                 summary |-> "Very low resolution. Will not produce acceptable prints."]
    IN  [ score                |-> ladder.score,
          tier                 |-> ladder.tier,
          summary              |-> ladder.summary,
          resolutionIssue      |-> <<width, " x ", height, "px (", ToFixed1(megapixels),
                                     " MP). Max print: ", ToFixed1(DDivInt(width, 300)), " x ",
                                     ToFixed1(DDivInt(height, 300)), " inches at 300 DPI.">>,
          colorIssue           |-> IF format = "pdf" THEN "CMYK status unknown for PDFs."
                                   ELSE "RGB color mode. Convert to CMYK for accurate print colors.",
          layoutIssue          |-> "Layout analysis requires AI vision. Upload an image for detailed assessment.",
          formatIssue          |-> <<ToUpperCase(format), " format detected.">>,
          printSizeMax         |-> <<ToFixed1(DDivInt(width, 300)), " x ",
                                     ToFixed1(DDivInt(height, 300)), " inches">>,
          sharpness            |-> "Requires AI analysis",
          compressionArtifacts |-> "Requires AI analysis",
          colorProfile         |-> "Requires AI analysis",
          recommendations      |-> <<"Upload an image file for AI-powered detailed analysis">> ]

\* getBasicAnalysis(width, height, format, fileSize); a number printed by
\* toFixed(1) is kept as its tenths
getBasicAnalysis(width, height, format, fileSize) ==
    LET megapixels == DDivInt(width * height, 1000000)
        ladder ==
            IF width >= 2400 /\ height >= 3000 THEN
                [score |-> 85, tier |-> "Great",
                 summary |-> "Good resolution for standard prints. Recommend using AI analysis for detailed assessment."]
            ELSE IF DGeInt(megapixels, 4) THEN
                [score |-> 75, tier |-> "Great",
                 summary |-> "Basic analysis performed. For detailed print assessment, upload an image file."]
            ELSE IF DGeInt(megapixels, 2) THEN
                [score |-> 60, tier |-> "Needs Optimization",
                 summary |-> "Moderate resolution. May appear soft on larger prints."]
            ELSE IF DGeInt(megapixels, 1) THEN
                [score |-> 45, tier |-> "High Risk",
                 summary |-> "Low resolution. Not suitable for quality prints."]
            ELSE
                [score |-> 25, tier |-> "Print Failure Likely",
                 summary |-> "Very low resolution. Will not produce acceptable prints."]
    IN  [ score                |-> ladder.score,
          tier                 |-> ladder.tier,
          summary              |-> ladder.summary,
          resolutionIssue      |-> <<width, " x ", height, "px (", ToFixed1(megapixels),
                                     " MP). Max print: ", ToFixed1(DDivInt(width, 300)), " x ",
                                     ToFixed1(DDivInt(height, 300)), " inches at 300 DPI.">>,
          colorIssue           |-> IF format = "pdf" THEN "CMYK status unknown for PDFs."
                                   ELSE "RGB color mode. Convert to CMYK for accurate print colors.",
          layoutIssue          |-> "Layout analysis requires AI vision. Upload an image for detailed assessment.",
          formatIssue          |-> <<ToUpperCase(format), " format detected.">>,
          printSizeMax         |-> <<ToFixed1(DDivInt(width, 300)), " x ",
                                     ToFixed1(DDivInt(height, 300)), " inches">>,
          sharpness            |-> "Requires AI analysis",
          compressionArtifacts |-> "Requires AI analysis",
          colorProfile         |-> "Requires AI analysis",
          recommendations      |-> <<"Upload an image file for AI-powered detailed analysis">> ]

\* the colour of the vision handler, by the score
VisionTierColorOf(score) ==
    IF score >= 90 THEN "#14D8D4"
    ELSE IF score >= 75 THEN "#14D8D4"
    ELSE IF score >= 60 THEN "#FFE600"
    ELSE IF score >= 40 THEN "#FF008C"
    ELSE "#6B7280"

(***************************************************************************)
(* The handler's state: one slot per request being served. Each variable   *)
(* is a local of POST, per slot; pc is where the request stands, at one of *)
(* the handler's awaits.                                                   *)
(***************************************************************************)
Slots == {1, 2}

VARIABLES pc, file, format_type, file_size, width_px, height_px,
          max_print_width_in, max_print_height_in,
          resolution_score, size_score, color_score, format_score, total_score,
          tier, tier_color, summary, edge_sample, layout_issue, response,
          \* the edge scan, pixel by pixel: the loop variables x and y, the flag,
          \* and the indices of the pixels read so far
          scan_x, scan_y, edgeActivity, reads,
          \* the analysis of the vision handler (the second POST of the file)
          aiAnalysis,
          \* the page: the state of Home (file as home_file), the last message
          \* it showed with alert(), the files its FileReaders are reading, and
          \* per call of analyzeFile the file in its FormData and where it stands
          home_file, preview, isAnalyzing, result, isDragging, alerted, reading,
          request, analyze_pc

fileVars   == <<file, format_type, file_size>>
dimVars    == <<width_px, height_px>>
scoreVars  == <<max_print_width_in, max_print_height_in, resolution_score, size_score,
                color_score, format_score, total_score, tier, tier_color, summary,
                aiAnalysis>>
scanVars   == <<scan_x, scan_y, edgeActivity, reads>>
layoutVars == <<edge_sample, layout_issue, scanVars>>
homeVars   == <<home_file, preview, result, alerted, reading>>
pageVars   == <<homeVars, isAnalyzing, isDragging, request, analyze_pc>>
vars       == <<pc, fileVars, dimVars, scoreVars, layoutVars, response, pageVars>>

NoFile     == [name |-> <<>>, type |-> <<>>, size |-> 0]
NoSample   == [absent |-> TRUE]
NoResponse == [status |-> 0]
NoAnalysis == [absent |-> TRUE]
NoPreview  == [absent |-> TRUE]
NoResult   == [absent |-> TRUE]

\* the page as it is mounted: no file, no preview, no result, nothing sent
InitHome ==
    /\ home_file = NoFile
    /\ preview = NoPreview
    /\ isAnalyzing = FALSE
    /\ result = NoResult
    /\ isDragging = FALSE
    /\ alerted = ""
    /\ reading = {}
    /\ request = [r \in Slots |-> NoFile]
    /\ analyze_pc = [r \in Slots |-> "none"]

Init ==
    /\ pc = [r \in Slots |-> "idle"]
    /\ file = [r \in Slots |-> NoFile]
    /\ format_type = [r \in Slots |-> ""]
    /\ file_size = [r \in Slots |-> 0]
    /\ width_px = [r \in Slots |-> 0]
    /\ height_px = [r \in Slots |-> 0]
    /\ max_print_width_in = [r \in Slots |-> DZero]
    /\ max_print_height_in = [r \in Slots |-> DZero]
    /\ resolution_score = [r \in Slots |-> 0]
    /\ size_score = [r \in Slots |-> 0]
    /\ color_score = [r \in Slots |-> 0]
    /\ format_score = [r \in Slots |-> 0]
    /\ total_score = [r \in Slots |-> 0]
    /\ tier = [r \in Slots |-> ""]
    /\ tier_color = [r \in Slots |-> ""]
    /\ summary = [r \in Slots |-> ""]
    /\ edge_sample = [r \in Slots |-> NoSample]
    /\ layout_issue = [r \in Slots |-> ""]
    /\ response = [r \in Slots |-> NoResponse]
    /\ scan_x = [r \in Slots |-> 0]
    /\ scan_y = [r \in Slots |-> 0]
    /\ edgeActivity = [r \in Slots |-> FALSE]
    /\ reads = [r \in Slots |-> <<>>]
    /\ aiAnalysis = [r \in Slots |-> NoAnalysis]
    /\ InitHome

\* formData.get('file') is missing: the 400 answer
NoFileProvided(r) ==
    /\ pc[r] = "idle"
    /\ pc' = [pc EXCEPT ![r] = "done"]
    /\ response' = [response EXCEPT ![r] = [status |-> 400, error |-> "No file provided"]]
    /\ UNCHANGED <<pageVars, fileVars, dimVars, scoreVars, layoutVars>>

\* request.formData() or file.arrayBuffer() rejects: the catch at the end
AnalysisError(r) ==
    /\ pc[r] = "idle"
    /\ pc' = [pc EXCEPT ![r] = "done"]
    /\ response' = [response EXCEPT ![r] = [status |-> 500, error |-> "Failed to analyze file"]]
    /\ UNCHANGED <<pageVars, fileVars, dimVars, scoreVars, layoutVars>>

\* the form holds file f: its format token, its size, and the dimensions at 0
Receive(r, f) ==
    /\ pc[r] = "idle"
    /\ file' = [file EXCEPT ![r] = f]
    /\ format_type' = [format_type EXCEPT ![r] = FormatType(f.name)]
    /\ file_size' = [file_size EXCEPT ![r] = f.size]
    /\ width_px' = [width_px EXCEPT ![r] = 0]
    /\ height_px' = [height_px EXCEPT ![r] = 0]
    /\ pc' = [pc EXCEPT ![r] = "dimensions"]
    /\ UNCHANGED <<pageVars, scoreVars, layoutVars, response>>

\* the call of metadata() outside a try: sharp's rejection reaches the catch
\* at the end of the handler
DimensionsUncaught(r, metadata) ==
    IF StartsWithImage(file[r].type) /\ metadata = SharpError
    THEN /\ pc[r] = "dimensions"
         /\ pc' = [pc EXCEPT ![r] = "done"]
         /\ response' = [response EXCEPT ![r] =
                            [status |-> 500, error |-> "Failed to analyze file"]]
         /\ UNCHANGED <<pageVars, fileVars, dimVars, scoreVars, layoutVars>>
    ELSE /\ pc[r] = "dimensions"
         /\ IF StartsWithImage(file[r].type)
            THEN /\ width_px' = [width_px EXCEPT ![r] = OrZero(metadata, "width")]
                 /\ height_px' = [height_px EXCEPT ![r] = OrZero(metadata, "height")]
            ELSE IF format_type[r] = "pdf"
                 THEN /\ width_px' = [width_px EXCEPT ![r] = PdfPage.width]
                      /\ height_px' = [height_px EXCEPT ![r] = PdfPage.height]
                 ELSE UNCHANGED dimVars
         /\ pc' = [pc EXCEPT ![r] = "score"]
         /\ UNCHANGED <<pageVars, fileVars, scoreVars, layoutVars, response>>

\* the dimensions: sharp's metadata for an image (left at 0 when sharp throws),
\* the nominal page for any other file named .pdf
Dimensions(r, metadata) ==
    /\ pc[r] = "dimensions"
    /\ IF StartsWithImage(file[r].type)
       THEN IF metadata = SharpError
            THEN UNCHANGED dimVars
            ELSE /\ width_px' = [width_px EXCEPT ![r] = OrZero(metadata, "width")]
                 /\ height_px' = [height_px EXCEPT ![r] = OrZero(metadata, "height")]
       ELSE IF format_type[r] = "pdf"
            THEN /\ width_px' = [width_px EXCEPT ![r] = PdfPage.width]
                 /\ height_px' = [height_px EXCEPT ![r] = PdfPage.height]
            ELSE UNCHANGED dimVars
    /\ pc' = [pc EXCEPT ![r] = "score"]
    /\ UNCHANGED <<pageVars, fileVars, scoreVars, layoutVars, response>>

\* the print size and the four sub-scores
Score(r) ==
    /\ pc[r] = "score"
    /\ max_print_width_in' =
          [max_print_width_in EXCEPT ![r] = DDivInt(width_px[r], target_dpi)]
    /\ max_print_height_in' =
          [max_print_height_in EXCEPT ![r] = DDivInt(height_px[r], target_dpi)]
    /\ resolution_score' =
          [resolution_score EXCEPT ![r] = ResolutionScore(width_px[r], height_px[r])]
    /\ size_score' = [size_score EXCEPT ![r] = SizeScore(file_size[r])]
    /\ color_score' = [color_score EXCEPT ![r] = ColorScore(format_type[r])]
    /\ format_score' = [format_score EXCEPT ![r] = FormatScore(format_type[r])]
    /\ pc' = [pc EXCEPT ![r] = "total"]
    /\ UNCHANGED <<pageVars, fileVars, dimVars, total_score, tier, tier_color, summary,
                   aiAnalysis, layoutVars, response>>

\* the weighted sum, rounded
Total(r) ==
    /\ pc[r] = "total"
    /\ total_score' =
          [total_score EXCEPT ![r] =
              TotalScore(resolution_score[r], size_score[r], color_score[r], format_score[r])]
    /\ pc' = [pc EXCEPT ![r] = "tier"]
    /\ UNCHANGED <<pageVars, fileVars, dimVars, max_print_width_in, max_print_height_in,
                   resolution_score, size_score, color_score, format_score,
                   tier, tier_color, summary, aiAnalysis, layoutVars, response>>

\* the tier of the total, with its colour and its summary
Tier(r) ==
    /\ pc[r] = "tier"
    /\ tier' = [tier EXCEPT ![r] = TierOf(total_score[r]).tier]
    /\ tier_color' = [tier_color EXCEPT ![r] = TierOf(total_score[r]).tier_color]
    /\ summary' = [summary EXCEPT ![r] = TierOf(total_score[r]).summary]
    /\ pc' = [pc EXCEPT ![r] = "layout"]
    /\ UNCHANGED <<pageVars, fileVars, dimVars, max_print_width_in, max_print_height_in,
                   resolution_score, size_score, color_score, format_score,
                   total_score, aiAnalysis, layoutVars, response>>

\* edge crowding taken off the total: five points less
LayoutCheckPenalising(r, decoded) ==
    /\ pc[r] = "layout"
    /\ IF StartsWithImage(file[r].type) /\ decoded # SharpError
       THEN /\ edge_sample' = [edge_sample EXCEPT ![r] = decoded]
            /\ layout_issue' =
                  [layout_issue EXCEPT ![r] =
                      IF EdgeActivity(decoded) THEN EdgeCrowding ELSE GoodMargins]
            /\ total_score' =
                  [total_score EXCEPT ![r] =
                      IF EdgeActivity(decoded) THEN total_score[r] - 5 ELSE total_score[r]]
       ELSE /\ edge_sample' = [edge_sample EXCEPT ![r] = NoSample]
            /\ layout_issue' = [layout_issue EXCEPT ![r] = GoodMargins]
            /\ UNCHANGED total_score
    /\ pc' = [pc EXCEPT ![r] = "respond"]
    /\ UNCHANGED <<pageVars, fileVars, dimVars, max_print_width_in, max_print_height_in,
                   resolution_score, size_score, color_score, format_score,
                   tier, tier_color, summary, aiAnalysis, scanVars, response>>

\* the sample taken outside a try: sharp's rejection reaches the catch at the
\* end of the handler
LayoutCheckUncaught(r, decoded) ==
    /\ pc[r] = "layout"
    /\ IF StartsWithImage(file[r].type) /\ decoded = SharpError
       THEN /\ pc' = [pc EXCEPT ![r] = "done"]
            /\ response' = [response EXCEPT ![r] =
                               [status |-> 500, error |-> "Failed to analyze file"]]
            /\ UNCHANGED <<edge_sample, layout_issue>>
       ELSE /\ IF StartsWithImage(file[r].type)
               THEN /\ edge_sample' = [edge_sample EXCEPT ![r] = decoded]
                    /\ layout_issue' =
                          [layout_issue EXCEPT ![r] =
                              IF EdgeActivity(decoded) THEN EdgeCrowding ELSE GoodMargins]
               ELSE /\ edge_sample' = [edge_sample EXCEPT ![r] = NoSample]
                    /\ layout_issue' = [layout_issue EXCEPT ![r] = GoodMargins]
            /\ pc' = [pc EXCEPT ![r] = "respond"]
            /\ UNCHANGED response
    /\ UNCHANGED <<pageVars, fileVars, dimVars, scoreVars, scanVars>>

\* the layout check in one step: for an image, sharp's sample is scanned (the
\* default narrative stays when sharp throws); no other file is sampled
LayoutCheck(r, decoded) ==
    /\ pc[r] = "layout"
    /\ IF StartsWithImage(file[r].type) /\ decoded # SharpError
       THEN /\ edge_sample' = [edge_sample EXCEPT ![r] = decoded]
            /\ layout_issue' =
                  [layout_issue EXCEPT ![r] =
                      IF EdgeActivity(decoded) THEN EdgeCrowding ELSE GoodMargins]
       ELSE /\ edge_sample' = [edge_sample EXCEPT ![r] = NoSample]
            /\ layout_issue' = [layout_issue EXCEPT ![r] = GoodMargins]
    /\ pc' = [pc EXCEPT ![r] = "respond"]
    /\ UNCHANGED <<pageVars, fileVars, dimVars, scoreVars, scanVars, response>>

(***************************************************************************)
(* The layout check pixel by pixel: the sample is taken, the two loops     *)
(* advance one pixel at a step, and the narrative is set when they end.    *)
(***************************************************************************)
\* pixel (x, y) lies in the band along the four borders of the sample
InBand(info, x, y) ==
    \/ x < edgePixels
    \/ x >= info.width - edgePixels
    \/ y < edgePixels
    \/ y >= info.height - edgePixels

\* three values a pixel, whatever the channels of the sample
PixelIndexRgb(info, x, y) == (y * info.width + x) * 3

\* the index of the first channel of pixel (x, y) in the Buffer
PixelIndex(info, x, y) == (y * info.width + x) * info.channels

\* one of the channels r, g, b of the pixel at idx is below 250
NonWhite(data, idx) == data[idx + 1] < 250 \/ data[idx + 2] < 250 \/ data[idx + 3] < 250

\* the default narrative, and sharp's sample for an image: the scan starts at
\* (0, 0) with edgeActivity false; no other file is sampled, and sharp's
\* rejection is caught
StartScan(r, decoded) ==
    /\ pc[r] = "layout"
    /\ layout_issue' = [layout_issue EXCEPT ![r] = GoodMargins]
    /\ IF StartsWithImage(file[r].type) /\ decoded # SharpError
       THEN /\ edge_sample' = [edge_sample EXCEPT ![r] = decoded]
            /\ scan_x' = [scan_x EXCEPT ![r] = 0]
            /\ scan_y' = [scan_y EXCEPT ![r] = 0]
            /\ edgeActivity' = [edgeActivity EXCEPT ![r] = FALSE]
            /\ reads' = [reads EXCEPT ![r] = <<>>]
            /\ pc' = [pc EXCEPT ![r] = "scan"]
       ELSE /\ edge_sample' = [edge_sample EXCEPT ![r] = NoSample]
            /\ pc' = [pc EXCEPT ![r] = "respond"]
            /\ UNCHANGED scanVars
    /\ UNCHANGED <<pageVars, fileVars, dimVars, scoreVars, response>>

\* the loops without the two breaks: the scan goes on after a hit
ScanPixelNoBreak(r) ==
    /\ pc[r] = "scan"
    /\ scan_y[r] < edge_sample[r].info.height
    /\ LET info == edge_sample[r].info
           idx  == PixelIndex(info, scan_x[r], scan_y[r])
       IN  IF scan_x[r] >= info.width
           THEN /\ scan_x' = [scan_x EXCEPT ![r] = 0]
                /\ scan_y' = [scan_y EXCEPT ![r] = scan_y[r] + 1]
                /\ UNCHANGED <<edgeActivity, reads>>
           ELSE /\ scan_x' = [scan_x EXCEPT ![r] = scan_x[r] + 1]
                /\ UNCHANGED scan_y
                /\ IF InBand(info, scan_x[r], scan_y[r])
                   THEN /\ reads' = [reads EXCEPT ![r] = Append(reads[r], idx)]
                        /\ edgeActivity' =
                              [edgeActivity EXCEPT ![r] =
                                  edgeActivity[r] \/ NonWhite(edge_sample[r].data, idx)]
                   ELSE UNCHANGED <<edgeActivity, reads>>
    /\ UNCHANGED <<pc, pageVars, fileVars, dimVars, scoreVars, edge_sample, layout_issue, response>>

\* one turn of the loops: at the end of a row, the next row; at a pixel of the
\* band, its r, g, b are read, and a value below 250 sets edgeActivity and
\* breaks (x and y stay); any other pixel is passed
ScanPixel(r) ==
    /\ pc[r] = "scan"
    /\ ~edgeActivity[r]
    /\ scan_y[r] < edge_sample[r].info.height
    /\ LET info == edge_sample[r].info
           idx  == PixelIndex(info, scan_x[r], scan_y[r])
       IN  IF scan_x[r] >= info.width
           THEN /\ scan_x' = [scan_x EXCEPT ![r] = 0]
                /\ scan_y' = [scan_y EXCEPT ![r] = scan_y[r] + 1]
                /\ UNCHANGED <<edgeActivity, reads>>
           ELSE IF InBand(info, scan_x[r], scan_y[r])
                THEN /\ reads' = [reads EXCEPT ![r] = Append(reads[r], idx)]
                     /\ IF NonWhite(edge_sample[r].data, idx)
                        THEN /\ edgeActivity' = [edgeActivity EXCEPT ![r] = TRUE]
                             /\ UNCHANGED <<scan_x, scan_y>>
                        ELSE /\ scan_x' = [scan_x EXCEPT ![r] = scan_x[r] + 1]
                             /\ UNCHANGED <<scan_y, edgeActivity>>
                ELSE /\ scan_x' = [scan_x EXCEPT ![r] = scan_x[r] + 1]
                     /\ UNCHANGED <<scan_y, edgeActivity, reads>>
    /\ UNCHANGED <<pc, pageVars, fileVars, dimVars, scoreVars, edge_sample, layout_issue, response>>

\* the loops have ended, by the break or at the last row: the narrative
ScanDone(r) ==
    /\ pc[r] = "scan"
    /\ edgeActivity[r] \/ scan_y[r] >= edge_sample[r].info.height
    /\ layout_issue' =
          [layout_issue EXCEPT ![r] = IF edgeActivity[r] THEN EdgeCrowding ELSE layout_issue[r]]
    /\ pc' = [pc EXCEPT ![r] = "respond"]
    /\ UNCHANGED <<pageVars, fileVars, dimVars, scoreVars, edge_sample, scanVars, response>>

\* layout_issue as one variable of the module, shared by the requests in flight
IssuesShared(r) ==
    [ resolution |-> <<"Sharp up to ", ToFixed1(max_print_width_in[r]), " x ",
                       ToFixed1(max_print_height_in[r]), " inches at 300 DPI.">>,
      color      |-> IF format_type[r] = "pdf"
                     THEN "CMYK status unknown for PDFs. Confirm with print provider."
                     ELSE "RGB color mode detected. Convert to CMYK for accurate print colors.",
      layout     |-> layout_issue[1],
      format     |-> <<ToUpperCase(format_type[r]), " format. ",
                       IF format_type[r] = "pdf"
                       THEN "Vector quality preserved. Good for print."
                       ELSE "Raster image format.">> ]

\* the four narratives; a number printed by toFixed(1) is kept as its tenths
Issues(r) ==
    [ resolution |-> <<"Sharp up to ", ToFixed1(max_print_width_in[r]), " x ",
                       ToFixed1(max_print_height_in[r]), " inches at 300 DPI.">>,
      color      |-> IF format_type[r] = "pdf"
                     THEN "CMYK status unknown for PDFs. Confirm with print provider."
                     ELSE "RGB color mode detected. Convert to CMYK for accurate print colors.",
      layout     |-> layout_issue[r],
      format     |-> <<ToUpperCase(format_type[r]), " format. ",
                       IF format_type[r] = "pdf"
                       THEN "Vector quality preserved. Good for print."
                       ELSE "Raster image format.">> ]

\* the JSON answer
Respond(r) ==
    /\ pc[r] = "respond"
    /\ response' = [response EXCEPT ![r] =
          [ status              |-> 200,
            width_px            |-> width_px[r],
            height_px           |-> height_px[r],
            file_size           |-> file_size[r],
            format_type         |-> format_type[r],
            max_print_width_in  |-> max_print_width_in[r],
            max_print_height_in |-> max_print_height_in[r],
            total_score         |-> total_score[r],
            tier                |-> tier[r],
            tier_color          |-> tier_color[r],
            summary             |-> summary[r],
            issues              |-> Issues(r) ]]
    /\ pc' = [pc EXCEPT ![r] = "done"]
    /\ UNCHANGED <<pageVars, fileVars, dimVars, scoreVars, layoutVars>>

(***************************************************************************)
(* The vision handler, from the print size on (its first lines, up to the  *)
(* dimensions, are those of the handler above).                            *)
(***************************************************************************)
\* what analyzeWithOpenAI makes of an image: the model's answer, parsed, or an
\* exception (no key, a failed call, an answer that is not JSON)
OpenAIError == [error |-> "openai"]

AIAnswer(points, label) ==
    [ score                |-> points,
      tier                 |-> label,
      summary              |-> "summary",
      resolutionIssue      |-> "resolutionIssue",
      colorIssue           |-> "colorIssue",
      layoutIssue          |-> "layoutIssue",
      formatIssue          |-> "formatIssue",
      printSizeMax         |-> "printSizeMax",
      sharpness            |-> "sharpness",
      compressionArtifacts |-> "compressionArtifacts",
      colorProfile         |-> "colorProfile",
      recommendations      |-> <<"recommendation">> ]

OpenAIResults == { AIAnswer(92, "Print-Ready"), AIAnswer(30, "Great"), OpenAIError }

\* the print size at 300 DPI
VisionPrintSize(r) ==
    /\ pc[r] = "vision"
    /\ max_print_width_in' = [max_print_width_in EXCEPT ![r] = DDivInt(width_px[r], 300)]
    /\ max_print_height_in' = [max_print_height_in EXCEPT ![r] = DDivInt(height_px[r], 300)]
    /\ pc' = [pc EXCEPT ![r] = "analyze"]
    /\ UNCHANGED <<pageVars, fileVars, dimVars, resolution_score, size_score, color_score,
                   format_score, total_score, tier, tier_color, summary, aiAnalysis,
                   layoutVars, response>>

\* the analysis: OpenAI's for an image (its exception is answered with a 500),
\* getBasicAnalysis for any other file
VisionAnalyze(r, answer) ==
    /\ pc[r] = "analyze"
    /\ IF StartsWithImage(file[r].type)
       THEN IF answer = OpenAIError
            THEN /\ response' = [response EXCEPT ![r] =
                                    [status |-> 500, error |-> "AI analysis failed",
                                     fallback |-> TRUE]]
                 /\ pc' = [pc EXCEPT ![r] = "done"]
                 /\ UNCHANGED aiAnalysis
            ELSE /\ aiAnalysis' = [aiAnalysis EXCEPT ![r] = answer]
                 /\ pc' = [pc EXCEPT ![r] = "color"]
                 /\ UNCHANGED response
       ELSE /\ aiAnalysis' =
                  [aiAnalysis EXCEPT ![r] =
                      getBasicAnalysis(width_px[r], height_px[r], format_type[r], file_size[r])]
            /\ pc' = [pc EXCEPT ![r] = "color"]
            /\ UNCHANGED response
    /\ UNCHANGED <<pageVars, fileVars, dimVars, max_print_width_in, max_print_height_in,
                   resolution_score, size_score, color_score, format_score,
                   total_score, tier, tier_color, summary, layoutVars>>

\* the colour of the tier, by the score of the analysis
VisionTierColor(r) ==
    /\ pc[r] = "color"
    /\ tier_color' = [tier_color EXCEPT ![r] = VisionTierColorOf(aiAnalysis[r].score)]
    /\ pc' = [pc EXCEPT ![r] = "answer"]
    /\ UNCHANGED <<pageVars, fileVars, dimVars, max_print_width_in, max_print_height_in,
                   resolution_score, size_score, color_score, format_score,
                   total_score, tier, summary, aiAnalysis, layoutVars, response>>

\* the JSON answer of the vision handler
VisionRespond(r) ==
    /\ pc[r] = "answer"
    /\ response' = [response EXCEPT ![r] =
          [ status               |-> 200,
            width_px             |-> width_px[r],
            height_px            |-> height_px[r],
            file_size            |-> file_size[r],
            format_type          |-> format_type[r],
            max_print_width_in   |-> max_print_width_in[r],
            max_print_height_in  |-> max_print_height_in[r],
            total_score          |-> aiAnalysis[r].score,
            tier                 |-> aiAnalysis[r].tier,
            tier_color           |-> tier_color[r],
            summary              |-> aiAnalysis[r].summary,
            issues               |-> [ resolution |-> aiAnalysis[r].resolutionIssue,
                                       color      |-> aiAnalysis[r].colorIssue,
                                       layout     |-> aiAnalysis[r].layoutIssue,
                                       format     |-> aiAnalysis[r].formatIssue ],
            sharpness            |-> aiAnalysis[r].sharpness,
            compressionArtifacts |-> aiAnalysis[r].compressionArtifacts,
            colorProfile         |-> aiAnalysis[r].colorProfile,
            printSizeMax         |-> aiAnalysis[r].printSizeMax,
            recommendations      |-> aiAnalysis[r].recommendations ]]
    /\ pc' = [pc EXCEPT ![r] = "done"]
    /\ UNCHANGED <<pageVars, fileVars, dimVars, scoreVars, layoutVars>>

\* one request, over the whole range of files
Next ==
    \/ NoFileProvided(1)
    \/ AnalysisError(1)
    \/ \E f \in Files : Receive(1, f)
    \/ \E metadata \in MetadataResults : Dimensions(1, metadata)
    \/ Score(1)
    \/ Total(1)
    \/ Tier(1)
    \/ \E decoded \in SampleResults : LayoutCheck(1, decoded)
    \/ Respond(1)

Spec == Init /\ [][Next]_vars

(***************************************************************************)
(* Two requests served at once (the handler suspends at each await), over  *)
(* a few files.                                                            *)
(***************************************************************************)
PairFiles ==
    [name : {<<"poster", "png">>, <<"flyer", "pdf">>},
     type : {<<"image", "png">>, <<"application", "pdf">>},
     size : {5 * MiB, 5 * MiB + 1}]

PairMetadataResults ==
    { [width |-> 2400, height |-> 3000], [width |-> 2399, height |-> 3000], SharpError }

PairSampleResults ==
    { Sample(SampleSide, SampleSide, 3, {}),
      Sample(SampleSide, SampleSide, 3, {<<0, 0, 0, 0>>}),
      SharpError }

NextPair ==
    \E r \in Slots :
        \/ NoFileProvided(r)
        \/ AnalysisError(r)
        \/ \E f \in PairFiles : Receive(r, f)
        \/ \E metadata \in PairMetadataResults : Dimensions(r, metadata)
        \/ Score(r)
        \/ Total(r)
        \/ Tier(r)
        \/ \E decoded \in PairSampleResults : LayoutCheck(r, decoded)
        \/ Respond(r)

SpecPair == Init /\ [][NextPair]_vars

(***************************************************************************)
(* The weighted sum and the tier ladder as functions: the sum on every     *)
(* combination of sub-scores of the four tables, the ladder on every total *)
(* from 0 to 100.                                                          *)
(***************************************************************************)
At(position) ==
    /\ pc = [r \in Slots |-> IF r = 1 THEN position ELSE "idle"]
    /\ file = [r \in Slots |-> NoFile]
    /\ format_type = [r \in Slots |-> ""]
    /\ file_size = [r \in Slots |-> 0]
    /\ width_px = [r \in Slots |-> 0]
    /\ height_px = [r \in Slots |-> 0]
    /\ max_print_width_in = [r \in Slots |-> DZero]
    /\ max_print_height_in = [r \in Slots |-> DZero]
    /\ tier = [r \in Slots |-> ""]
    /\ tier_color = [r \in Slots |-> ""]
    /\ summary = [r \in Slots |-> ""]
    /\ edge_sample = [r \in Slots |-> NoSample]
    /\ layout_issue = [r \in Slots |-> ""]
    /\ response = [r \in Slots |-> NoResponse]
    /\ scan_x = [r \in Slots |-> 0]
    /\ scan_y = [r \in Slots |-> 0]
    /\ edgeActivity = [r \in Slots |-> FALSE]
    /\ reads = [r \in Slots |-> <<>>]
    /\ aiAnalysis = [r \in Slots |-> NoAnalysis]
    /\ InitHome

InitTotal ==
    /\ At("total")
    /\ \E resolution \in {100, 85, 65, 45, 20}, size \in {100, 85, 60, 30},
          color \in {70, 50}, format \in {100, 90, 50} :
          /\ resolution_score = [r \in Slots |-> IF r = 1 THEN resolution ELSE 0]
          /\ size_score = [r \in Slots |-> IF r = 1 THEN size ELSE 0]
          /\ color_score = [r \in Slots |-> IF r = 1 THEN color ELSE 0]
          /\ format_score = [r \in Slots |-> IF r = 1 THEN format ELSE 0]
    /\ total_score = [r \in Slots |-> 0]

NextTotal == Total(1) \/ Tier(1)

SpecTotal == InitTotal /\ [][NextTotal]_vars

InitTier ==
    /\ At("tier")
    /\ resolution_score = [r \in Slots |-> 0]
    /\ size_score = [r \in Slots |-> 0]
    /\ color_score = [r \in Slots |-> 0]
    /\ format_score = [r \in Slots |-> 0]
    /\ \E total \in 0..100 : total_score = [r \in Slots |-> IF r = 1 THEN total ELSE 0]

NextTier == Tier(1)

SpecTier == InitTier /\ [][NextTier]_vars

(***************************************************************************)
(* Two requests on files that differ in one field only: in their           *)
(* dimensions (as sharp reports them), or in their byte size.              *)
(***************************************************************************)
LadderAnchors ==
    { <<2400, 3000>>, <<4500, 2400>>, <<2000, 2000>>, <<2000, 1000>>, <<1000, 1000>>,
      <<1000, 0>>, <<0, 0>> }

LadderMetadataResults ==
    { [width |-> d[1] + dw, height |-> d[2]] :
          d \in LadderAnchors, dw \in (0 - Slack)..Slack } \cap [width : Nat, height : Nat]

DimsFiles ==
    { [name |-> <<"poster", "png">>, type |-> <<"image", "png">>, size |-> 3 * MiB],
      [name |-> <<"scan", "jpeg">>, type |-> <<"image", "png">>, size |-> 20 * MiB] }

NextDims ==
    \E r \in Slots :
        \/ \E f \in DimsFiles : Receive(r, f)
        \/ \E metadata \in LadderMetadataResults : Dimensions(r, metadata)
        \/ Score(r)
        \/ Total(r)

SpecDims == Init /\ [][NextDims]_vars

SizesFiles == [name : {<<"poster", "png">>}, type : {<<"image", "png">>}, size : Sizes]

SizesMetadataResults ==
    { [width |-> 2400, height |-> 3000], [width |-> 2000, height |-> 1000], SharpError }

NextSizes ==
    \E r \in Slots :
        \/ \E f \in SizesFiles : Receive(r, f)
        \/ \E metadata \in SizesMetadataResults : Dimensions(r, metadata)
        \/ Score(r)
        \/ Total(r)

SpecSizes == Init /\ [][NextSizes]_vars

(***************************************************************************)
(* One request on an image, its edge scan pixel by pixel, over samples with *)
(* one pixel off white at every place and in every channel.                *)
(***************************************************************************)
ScanFiles ==
    { [name |-> <<"poster", "png">>, type |-> <<"image", "png">>, size |-> 3 * MiB],
      [name |-> <<"flyer", "pdf">>, type |-> <<"application", "pdf">>, size |-> 3 * MiB] }

ScanMetadataResults == { [width |-> 3000, height |-> 4500] }

\* square samples of 3 channels with at most one value of 249, wider samples of
\* 4 channels with one value of 0 or of 250 in the middle row, in the blue or
\* in the alpha channel
ScanSamples ==
    {Sample(SampleSide, SampleSide, 3, {})}
    \cup { Sample(SampleSide, SampleSide, 3, {<<x, y, c, 249>>}) :
              x \in 0..(SampleSide - 1), y \in 0..(SampleSide - 1), c \in 0..2 }
    \cup { Sample(SampleSide + 2, SampleSide, 4, {<<x, SampleSide \div 2, c, v>>}) :
              x \in 0..(SampleSide + 1), c \in {2, 3}, v \in {0, 250} }

ScanSampleResults == ScanSamples \cup {SharpError}

NextScan ==
    \/ \E f \in ScanFiles : Receive(1, f)
    \/ \E metadata \in ScanMetadataResults : Dimensions(1, metadata)
    \/ Score(1)
    \/ Total(1)
    \/ Tier(1)
    \/ \E decoded \in ScanSampleResults : StartScan(1, decoded)
    \/ ScanPixel(1)
    \/ ScanDone(1)
    \/ Respond(1)

SpecScan == Init /\ [][NextScan]_vars

(***************************************************************************)
(* The vision handler from its print size on, and with it getBasicAnalysis *)
(* as a function: on files of every content class, token and size, at      *)
(* every width and height around the thresholds of its ladder.             *)
(***************************************************************************)
VisionFiles ==
    [name : {<<"flyer", "pdf">>, <<"logo", "svg">>, <<"README">>},
     type : Types,
     size : {3 * MiB, 20 * MiB}]

VisionDims ==
    { <<m.width, m.height>> : m \in LadderMetadataResults }
    \cup { <<PdfPage.width, PdfPage.height>> }

InitVision ==
    /\ pc = [r \in Slots |-> IF r = 1 THEN "vision" ELSE "idle"]
    /\ \E f \in VisionFiles, d \in VisionDims :
          /\ file = [r \in Slots |-> IF r = 1 THEN f ELSE NoFile]
          /\ format_type = [r \in Slots |-> IF r = 1 THEN FormatType(f.name) ELSE ""]
          /\ file_size = [r \in Slots |-> IF r = 1 THEN f.size ELSE 0]
          /\ width_px = [r \in Slots |-> IF r = 1 THEN d[1] ELSE 0]
          /\ height_px = [r \in Slots |-> IF r = 1 THEN d[2] ELSE 0]
    /\ max_print_width_in = [r \in Slots |-> DZero]
    /\ max_print_height_in = [r \in Slots |-> DZero]
    /\ resolution_score = [r \in Slots |-> 0]
    /\ size_score = [r \in Slots |-> 0]
    /\ color_score = [r \in Slots |-> 0]
    /\ format_score = [r \in Slots |-> 0]
    /\ total_score = [r \in Slots |-> 0]
    /\ tier = [r \in Slots |-> ""]
    /\ tier_color = [r \in Slots |-> ""]
    /\ summary = [r \in Slots |-> ""]
    /\ edge_sample = [r \in Slots |-> NoSample]
    /\ layout_issue = [r \in Slots |-> ""]
    /\ response = [r \in Slots |-> NoResponse]
    /\ scan_x = [r \in Slots |-> 0]
    /\ scan_y = [r \in Slots |-> 0]
    /\ edgeActivity = [r \in Slots |-> FALSE]
    /\ reads = [r \in Slots |-> <<>>]
    /\ aiAnalysis = [r \in Slots |-> NoAnalysis]
    /\ InitHome

NextVision ==
    \/ VisionPrintSize(1)
    \/ \E answer \in OpenAIResults : VisionAnalyze(1, answer)
    \/ VisionTierColor(1)
    \/ VisionRespond(1)

SpecVision == InitVision /\ [][NextVision]_vars

(***************************************************************************)
(* The page: Home of src/app/page.tsx. A file reaches handleFileSelect     *)
(* from the file input or from a drop; analyzeFile posts the selected file *)
(* to the handler and suspends at its two awaits. alert() returns when the *)
(* user has closed it, and no other event of the page runs meanwhile: a    *)
(* handler of the page up to its next await is one step.                   *)
(***************************************************************************)
validTypes == { <<"image", "png">>, <<"image", "jpeg">>, <<"application", "pdf">> }

\* the message handleFileSelect rejects a file with, "" for a file it accepts
\* the type alone is looked at: a file of any size is accepted
RejectionByTypeOnly(selectedFile) ==
    IF selectedFile.type \notin validTypes THEN "Please upload a PNG, JPG, or PDF file."
    ELSE ""

Rejection(selectedFile) ==
    IF selectedFile.type \notin validTypes THEN "Please upload a PNG, JPG, or PDF file."
    ELSE IF selectedFile.size > 10 * 1024 * 1024 THEN "File size must be under 10MB."
    ELSE ""

\* what FileReader.readAsDataURL makes of a file
DataURL(f) == [data |-> f.name, mime |-> f.type]

\* the result cleared before the file is looked at
handleFileSelectClearsFirst(selectedFile) ==
    /\ result' = NoResult
    /\ IF Rejection(selectedFile) # ""
       THEN /\ alerted' = Rejection(selectedFile)
            /\ UNCHANGED <<home_file, preview, reading>>
       ELSE /\ home_file' = selectedFile
            /\ IF StartsWithImage(selectedFile.type)
               THEN /\ reading' = reading \cup {selectedFile}
                    /\ UNCHANGED preview
               ELSE /\ preview' = NoPreview
                    /\ UNCHANGED reading
            /\ UNCHANGED alerted

\* handleFileSelect(selectedFile): a file of another type, or of more than
\* 10 MiB, is answered with an alert and nothing else; any other file becomes
\* the file, the result is cleared, and the preview is read (an image) or
\* cleared
handleFileSelect(selectedFile) ==
    IF Rejection(selectedFile) # ""
    THEN /\ alerted' = Rejection(selectedFile)
         /\ UNCHANGED <<home_file, preview, result, reading>>
    ELSE /\ home_file' = selectedFile
         /\ result' = NoResult
         /\ IF StartsWithImage(selectedFile.type)
            THEN /\ reading' = reading \cup {selectedFile}
                 /\ UNCHANGED preview
            ELSE /\ preview' = NoPreview
                 /\ UNCHANGED reading
         /\ UNCHANGED alerted

\* the variables of the handler
serverVars == <<pc, fileVars, dimVars, scoreVars, layoutVars, response>>

\* the file input: the drop zone opens it only with no file and no analysis
\* running, and it is disabled while one runs
Browse(f) ==
    /\ ~isAnalyzing
    /\ home_file = NoFile
    /\ handleFileSelect(f)
    /\ UNCHANGED <<isAnalyzing, isDragging, request, analyze_pc, serverVars>>

\* handleDragOver and handleDragLeave
DragOver ==
    /\ isDragging' = TRUE
    /\ UNCHANGED <<homeVars, isAnalyzing, request, analyze_pc, serverVars>>

DragLeave ==
    /\ isDragging' = FALSE
    /\ UNCHANGED <<homeVars, isAnalyzing, request, analyze_pc, serverVars>>

\* handleDrop: the drop zone takes a drop at any time
Drop(f) ==
    /\ isDragging' = FALSE
    /\ handleFileSelect(f)
    /\ UNCHANGED <<isAnalyzing, request, analyze_pc, serverVars>>

\* reader.onload: a FileReader has read its file
ReaderLoad(f) ==
    /\ f \in reading
    /\ reading' = reading \ {f}
    /\ preview' = DataURL(f)
    /\ UNCHANGED <<home_file, result, alerted, isAnalyzing, isDragging, request,
                   analyze_pc, serverVars>>

\* the remove button, shown with a file
Remove ==
    /\ home_file # NoFile
    /\ home_file' = NoFile
    /\ preview' = NoPreview
    /\ UNCHANGED <<result, alerted, reading, isAnalyzing, isDragging, request,
                   analyze_pc, serverVars>>

\* the scan button never disabled
analyzeFileNotDisabled(r) ==
    /\ home_file # NoFile
    /\ analyze_pc[r] = "none"
    /\ \A q \in Slots : q < r => analyze_pc[q] # "none"
    /\ isAnalyzing' = TRUE
    /\ request' = [request EXCEPT ![r] = home_file]
    /\ analyze_pc' = [analyze_pc EXCEPT ![r] = "fetch"]
    /\ UNCHANGED <<homeVars, isDragging, serverVars>>

\* analyzeFile, from the scan button (shown with a file, disabled while
\* isAnalyzing), up to await fetch: call r posts the file
analyzeFile(r) ==
    /\ home_file # NoFile
    /\ ~isAnalyzing
    /\ analyze_pc[r] = "none"
    /\ \A q \in Slots : q < r => analyze_pc[q] # "none"
    /\ isAnalyzing' = TRUE
    /\ request' = [request EXCEPT ![r] = home_file]
    /\ analyze_pc' = [analyze_pc EXCEPT ![r] = "fetch"]
    /\ UNCHANGED <<homeVars, isDragging, serverVars>>

\* the handler's answer has come: an ok answer goes on to await json(), any
\* other throws: the catch alerts, the finally clears isAnalyzing
FetchResolved(r) ==
    /\ analyze_pc[r] = "fetch"
    /\ pc[r] = "done"
    /\ IF response[r].status = 200
       THEN /\ analyze_pc' = [analyze_pc EXCEPT ![r] = "json"]
            /\ UNCHANGED <<alerted, isAnalyzing>>
       ELSE /\ analyze_pc' = [analyze_pc EXCEPT ![r] = "failed"]
            /\ alerted' = "Failed to analyze file. Please try again."
            /\ isAnalyzing' = FALSE
    /\ UNCHANGED <<home_file, preview, result, reading, isDragging, request, serverVars>>

\* the catch without the finally
FetchRejectedNoFinally(r) ==
    /\ analyze_pc[r] = "fetch"
    /\ analyze_pc' = [analyze_pc EXCEPT ![r] = "failed"]
    /\ alerted' = "Failed to analyze file. Please try again."
    /\ UNCHANGED <<home_file, preview, result, reading, isAnalyzing, isDragging, request,
                   serverVars>>

\* fetch rejects (the network): catch and finally
FetchRejected(r) ==
    /\ analyze_pc[r] = "fetch"
    /\ analyze_pc' = [analyze_pc EXCEPT ![r] = "failed"]
    /\ alerted' = "Failed to analyze file. Please try again."
    /\ isAnalyzing' = FALSE
    /\ UNCHANGED <<home_file, preview, result, reading, isDragging, request, serverVars>>

\* the body has come: setResult(data), and the finally
JsonResolved(r) ==
    /\ analyze_pc[r] = "json"
    /\ result' = response[r]
    /\ analyze_pc' = [analyze_pc EXCEPT ![r] = "shown"]
    /\ isAnalyzing' = FALSE
    /\ UNCHANGED <<home_file, preview, alerted, reading, isDragging, request, serverVars>>

\* response.json() rejects: catch and finally
JsonRejected(r) ==
    /\ analyze_pc[r] = "json"
    /\ analyze_pc' = [analyze_pc EXCEPT ![r] = "failed"]
    /\ alerted' = "Failed to analyze file. Please try again."
    /\ isAnalyzing' = FALSE
    /\ UNCHANGED <<home_file, preview, result, reading, isDragging, request, serverVars>>

\* the files offered to the page: a PNG and a PDF it accepts (the PDF at the
\* limit), a JPEG one byte over the limit, and files of another type
PageFiles ==
    { [name |-> <<"poster", "png">>, type |-> <<"image", "png">>, size |-> 3 * MiB],
      [name |-> <<"flyer", "pdf">>, type |-> <<"application", "pdf">>, size |-> 10 * MiB],
      [name |-> <<"photo", "JPG">>, type |-> <<"image", "jpeg">>, size |-> 10 * MiB + 1],
      [name |-> <<"logo", "svg">>, type |-> <<"text", "plain">>, size |-> 3 * MiB],
      [name |-> <<"README">>, type |-> <<"text", "plain">>, size |-> 20 * MiB] }

PageMetadataResults == { [width |-> 2400, height |-> 3000], SharpError }

PageSampleResults == { Sample(SampleSide, SampleSide, 3, {}), SharpError }

\* the handler serving the request of call r of analyzeFile, once it is sent
Serve(r) ==
    /\ analyze_pc[r] # "none"
    /\ \/ AnalysisError(r)
       \/ Receive(r, request[r])
       \/ \E metadata \in PageMetadataResults : Dimensions(r, metadata)
       \/ Score(r)
       \/ Total(r)
       \/ Tier(r)
       \/ \E decoded \in PageSampleResults : LayoutCheck(r, decoded)
       \/ Respond(r)

\* the answer of the handler comes back to analyzeFile
Settle(r) == FetchResolved(r) \/ JsonResolved(r)

NextPage ==
    \/ \E f \in PageFiles : Browse(f)
    \/ DragOver
    \/ DragLeave
    \/ \E f \in PageFiles : Drop(f)
    \/ \E f \in PageFiles : ReaderLoad(f)
    \/ Remove
    \/ \E r \in Slots : analyzeFile(r)
    \/ \E r \in Slots : Serve(r)
    \/ \E r \in Slots : FetchResolved(r)
    \/ \E r \in Slots : FetchRejected(r)
    \/ \E r \in Slots : JsonResolved(r)
    \/ \E r \in Slots : JsonRejected(r)

SpecPage == Init /\ [][NextPage]_vars

\* analyzeFile among drops and removals of the two files the page accepts; the
\* handler goes on with a request it has, and an answer it gave arrives
AnalyzeFiles == { f \in PageFiles : Rejection(f) = "" }

NextAnalyze ==
    \/ \E f \in AnalyzeFiles : Drop(f)
    \/ Remove
    \/ \E r \in Slots : analyzeFile(r)
    \/ \E r \in Slots : Serve(r)
    \/ \E r \in Slots : FetchResolved(r)
    \/ \E r \in Slots : FetchRejected(r)
    \/ \E r \in Slots : JsonResolved(r)
    \/ \E r \in Slots : JsonRejected(r)

\* the handler has the request of call r and has not answered it: it has a step
\* to take (ENABLED <<Serve(r)>>_vars)
Pending(r) == analyze_pc[r] # "none" /\ pc[r] # "done"

\* weak fairness of Settle(r), and of Serve(r) with its ENABLED written as
\* Pending(r)
SpecAnalyzeFair ==
    /\ Init
    /\ [][NextAnalyze]_vars
    /\ \A r \in Slots :
          /\ WF_vars(Settle(r))
          /\ []<>(~Pending(r)) \/ []<><<Serve(r)>>_vars

(***************************************************************************)
(* Upload: the files handleFileSelect accepts, over every name, type and   *)
(* size, each scored by the handler.                                       *)
(***************************************************************************)
UploadTypes == Types \cup validTypes

UploadFiles == [name : Names, type : UploadTypes, size : Sizes]

NextUpload ==
    \/ AnalysisError(1)
    \/ \E f \in UploadFiles : Rejection(f) = "" /\ Receive(1, f)
    \/ \E metadata \in MetadataResults : Dimensions(1, metadata)
    \/ Score(1)
    \/ Total(1)
    \/ Tier(1)
    \/ \E decoded \in SampleResults : LayoutCheck(1, decoded)
    \/ Respond(1)

SpecUpload == Init /\ [][NextUpload]_vars

(***************************************************************************)
(* Properties                                                              *)
(***************************************************************************)
\* the request was answered with a result
Answered(r) == pc[r] = "done" /\ response[r].status = 200

\* where the request stands: its dimensions, sub-scores, total, tier, layout set
MeasuredAt(r) == pc[r] \in {"score", "total", "tier", "layout", "respond"} \/ Answered(r)
ScoredAt(r)   == pc[r] \in {"total", "tier", "layout", "respond"} \/ Answered(r)
TotalledAt(r) == pc[r] \in {"tier", "layout", "respond"} \/ Answered(r)
TieredAt(r)   == pc[r] \in {"layout", "respond"} \/ Answered(r)
CheckedAt(r)  == pc[r] = "respond" \/ Answered(r)

content_is_raster(r) == StartsWithImage(file[r].type)

\* C1: every sub-score is a value of its table (resolution 100/85/65/45/20,
\* size 100/85/60/30, color 70/50, format 100/90/50) and the total lies in 0..100
ScoresInTables ==
    \A r \in Slots :
        /\ ScoredAt(r) =>
              /\ resolution_score[r] \in {100, 85, 65, 45, 20}
              /\ size_score[r] \in {100, 85, 60, 30}
              /\ color_score[r] \in {70, 50}
              /\ format_score[r] \in {100, 90, 50}
        /\ TotalledAt(r) => total_score[r] \in 0..100
        /\ Answered(r) => response[r].total_score \in 0..100

\* C1 witness: an answered request with the lowest score of every table
LowestScoresAnswered ==
    /\ Answered(1)
    /\ resolution_score[1] = 20 /\ size_score[1] = 30
    /\ color_score[1] = 70 /\ format_score[1] = 50
    /\ response[1].total_score = 36

\* the asset of a request: its token, its content class, its size, its
\* dimensions and its edge sample
SameAsset(r, s) ==
    /\ format_type[r] = format_type[s]
    /\ content_is_raster(r) = content_is_raster(s)
    /\ file_size[r] = file_size[s]
    /\ width_px[r] = width_px[s]
    /\ height_px[r] = height_px[s]
    /\ edge_sample[r] = edge_sample[s]

TotalIsWeightedSumRoundedHalfUp ==
    \A r \in Slots :
        TotalledAt(r) =>
            total_score[r] = (40 * resolution_score[r] + 30 * size_score[r]
                              + 20 * color_score[r] + 10 * format_score[r] + 50) \div 100

\* C3 witness: 100/85/70/100 sums to 89.5 and gives 90
HalfRoundedUp ==
    /\ pc[1] = "tier"
    /\ resolution_score[1] = 100 /\ size_score[1] = 85
    /\ color_score[1] = 70 /\ format_score[1] = 100
    /\ total_score[1] = 90

\* C4: resolution is 100 exactly when width >= 2400 and height >= 3000, else
\* 85, 65, 45 from 4, 2, 1 million pixels, else 20; each clause implies the next
ResolutionLadder ==
    \A r \in Slots :
        ScoredAt(r) =>
            LET w == width_px[r]
                h == height_px[r]
            IN  /\ resolution_score[r] = 100 <=> (w >= 2400 /\ h >= 3000)
                /\ resolution_score[r] =
                      IF w >= 2400 /\ h >= 3000 THEN 100
                      ELSE IF w * h >= 4000000 THEN 85
                      ELSE IF w * h >= 2000000 THEN 65
                      ELSE IF w * h >= 1000000 THEN 45
                      ELSE 20
                /\ (w >= 2400 /\ h >= 3000) => w * h >= 4000000
                /\ w * h >= 4000000 => w * h >= 2000000
                /\ w * h >= 2000000 => w * h >= 1000000

\* C4 witness: one pixel short of the 8x10 grid in width, 85 by its megapixels
OnePixelShortOfGrid ==
    /\ ScoredAt(1)
    /\ width_px[1] = 2399 /\ height_px[1] = 3000
    /\ resolution_score[1] = 85

\* C5: the tier by inclusive lower bounds: 90 and more Print-Ready, 75..89 Great,
\* 60..74 Needs Optimization, 40..59 High Risk, less Print Failure Likely
TierBands ==
    \A r \in Slots :
        TieredAt(r) =>
            /\ total_score[r] >= 90 => tier[r] = "Print-Ready"
            /\ total_score[r] \in 75..89 => tier[r] = "Great"
            /\ total_score[r] \in 60..74 => tier[r] = "Needs Optimization"
            /\ total_score[r] \in 40..59 => tier[r] = "High Risk"
            /\ total_score[r] < 40 => tier[r] = "Print Failure Likely"

\* C5 witness: a total of exactly 40 is High Risk
FortyIsHighRisk ==
    /\ TieredAt(1) /\ total_score[1] = 40 /\ tier[1] = "High Risk"

\* C6: size is 100 up to 5 MiB, 85 up to 10 MiB, 60 up to 15 MiB (each bound
\* included), 30 above
SizeLadder ==
    \A r \in Slots :
        ScoredAt(r) =>
            size_score[r] =
                IF file_size[r] <= 5 * 1048576 THEN 100
                ELSE IF file_size[r] <= 10 * 1048576 THEN 85
                ELSE IF file_size[r] <= 15 * 1048576 THEN 60
                ELSE 30

\* C6 witness: one byte over 5 MiB scores 85
OneByteOverFiveMiB ==
    /\ ScoredAt(1) /\ file_size[1] = 5 * 1048576 + 1 /\ size_score[1] = 85

\* C7 as stated: every raster asset gets 70 whatever its token, every asset
\* with the token "pdf" gets 50, every other non-raster asset gets 70
ColorByContentClass ==
    \A r \in Slots :
        ScoredAt(r) =>
            /\ content_is_raster(r) => color_score[r] = 70
            /\ format_type[r] = "pdf" => color_score[r] = 50
            /\ (~content_is_raster(r) /\ format_type[r] # "pdf") => color_score[r] = 70

\* C7 as amended: the token alone decides: "pdf" gets 50, raster or not, and
\* every other token gets 70, raster or not
ColorByFormatToken ==
    \A r \in Slots :
        ScoredAt(r) =>
            /\ format_type[r] = "pdf" => color_score[r] = 50
            /\ format_type[r] # "pdf" => color_score[r] = 70

\* C7 witness: a raster asset named .pdf scores 50
RasterPdfScoresFifty ==
    /\ ScoredAt(1) /\ content_is_raster(1) /\ format_type[1] = "pdf"
    /\ color_score[1] = 50

\* C8: format is 100 for "png", "jpg", "jpeg", 90 for "pdf", 50 for any other
\* token, whatever the content class, the dimensions and the size
FormatByToken ==
    \A r \in Slots :
        ScoredAt(r) =>
            format_score[r] =
                CASE format_type[r] \in {"png", "jpg", "jpeg"} -> 100
                  [] format_type[r] = "pdf" -> 90
                  [] OTHER -> 50

\* C8 witness: a raster file with no extension after the dot: "unknown", 50
UnknownRasterScoresFifty ==
    /\ ScoredAt(1) /\ content_is_raster(1) /\ format_type[1] = "unknown"
    /\ width_px[1] = 3000 /\ format_score[1] = 50

\* C9 as stated: a file with the token "pdf", whatever its MIME type, is taken
\* as 2550 x 3300 and is never sampled
PdfAlwaysNominal ==
    \A r \in Slots :
        format_type[r] = "pdf" =>
            /\ MeasuredAt(r) => (width_px[r] = 2550 /\ height_px[r] = 3300)
            /\ CheckedAt(r) => (edge_sample[r] = NoSample /\ layout_issue[r] = GoodMargins)

\* C9 as amended: so it is for the files whose MIME type does not start with
\* "image/"
NonRasterPdfNominal ==
    \A r \in Slots :
        (format_type[r] = "pdf" /\ ~content_is_raster(r)) =>
            /\ MeasuredAt(r) => (width_px[r] = 2550 /\ height_px[r] = 3300)
            /\ CheckedAt(r) => (edge_sample[r] = NoSample /\ layout_issue[r] = GoodMargins)

\* C9 witness: a PDF answered with the nominal page and the default narrative
PdfAnsweredNominal ==
    /\ Answered(1) /\ format_type[1] = "pdf" /\ file[1].type = <<"application", "pdf">>
    /\ response[1].width_px = 2550 /\ response[1].height_px = 3300
    /\ response[1].issues.layout = GoodMargins

\* C10 as stated: any asset with the token "pdf" scores 100 for resolution, 50
\* for color and 90 for format
PdfScores ==
    \A r \in Slots :
        (ScoredAt(r) /\ format_type[r] = "pdf") =>
            (resolution_score[r] = 100 /\ color_score[r] = 50 /\ format_score[r] = 90)

\* C10 as amended: so does any non-raster asset with the token "pdf", at every
\* byte size
NonRasterPdfScores ==
    \A r \in Slots :
        (ScoredAt(r) /\ format_type[r] = "pdf" /\ ~content_is_raster(r)) =>
            (resolution_score[r] = 100 /\ color_score[r] = 50 /\ format_score[r] = 90)

\* C10 witness: a PDF of 20 MiB scored 100, 50 and 90
LargePdfScored ==
    /\ ScoredAt(1) /\ format_type[1] = "pdf" /\ ~content_is_raster(1)
    /\ file_size[1] = 20 * 1048576
    /\ resolution_score[1] = 100 /\ color_score[1] = 50 /\ format_score[1] = 90

\* two requests whose files differ at most in their dimensions
SameButDimensions(r, s) ==
    /\ format_type[r] = format_type[s]
    /\ content_is_raster(r) = content_is_raster(s)
    /\ file_size[r] = file_size[s]

\* C11 as stated: of two assets that differ only in dimensions, the one with the
\* greater or equal width * height has the greater or equal resolution sub-score
ResolutionMonotoneInPixels ==
    \A r, s \in Slots :
        (ScoredAt(r) /\ ScoredAt(s) /\ SameButDimensions(r, s)
            /\ width_px[s] * height_px[s] >= width_px[r] * height_px[r]) =>
            resolution_score[s] >= resolution_score[r]

\* C11 as amended: of two assets that differ only in dimensions, the one that is
\* at least as wide and at least as high has the greater or equal resolution
\* sub-score
ResolutionMonotoneInEachSide ==
    \A r, s \in Slots :
        (ScoredAt(r) /\ ScoredAt(s) /\ SameButDimensions(r, s)
            /\ width_px[s] >= width_px[r] /\ height_px[s] >= height_px[r]) =>
            resolution_score[s] >= resolution_score[r]

\* C11 witness: the same file at 2000 x 1000 and at 2000 x 2000: 65 and 85
TallerScoresMore ==
    /\ ScoredAt(1) /\ ScoredAt(2) /\ SameButDimensions(1, 2)
    /\ width_px[1] = 2000 /\ height_px[1] = 1000 /\ resolution_score[1] = 65
    /\ width_px[2] = 2000 /\ height_px[2] = 2000 /\ resolution_score[2] = 85

\* two requests whose files differ at most in their byte size
SameButSize(r, s) ==
    /\ format_type[r] = format_type[s]
    /\ content_is_raster(r) = content_is_raster(s)
    /\ width_px[r] = width_px[s]
    /\ height_px[r] = height_px[s]

\* C12: of two assets that differ only in byte size, the smaller or equal one
\* has the greater or equal size sub-score, and a total that is not lower
SizeMonotone ==
    \A r, s \in Slots :
        (SameButSize(r, s) /\ file_size[s] <= file_size[r]) =>
            /\ (ScoredAt(r) /\ ScoredAt(s)) => size_score[s] >= size_score[r]
            /\ (TotalledAt(r) /\ TotalledAt(s)) => total_score[s] >= total_score[r]

\* C12 witness: the same image at 10 MiB and one byte more: 85 and 60 for the
\* size, and the total of the smaller file is higher
OneByteLessTotalsMore ==
    /\ TotalledAt(1) /\ TotalledAt(2) /\ SameButSize(1, 2)
    /\ file_size[2] = 10 * 1048576 /\ file_size[1] = 10 * 1048576 + 1
    /\ size_score[2] = 85 /\ size_score[1] = 60
    /\ total_score[2] > total_score[1]

\* C13: a request whose width or height is 0 (sharp threw, gave no width or
\* height, or the file is neither an image nor a PDF) scores 20 for resolution,
\* has a print size of 0 by 0 inches when both are 0, gets no error answer once
\* its file is read, and is answered with a complete result
ZeroDimensionsDegrade ==
    \A r \in Slots :
        /\ (ScoredAt(r) /\ (width_px[r] = 0 \/ height_px[r] = 0)) =>
              /\ resolution_score[r] = 20
              /\ (width_px[r] = 0 /\ height_px[r] = 0) =>
                    (max_print_width_in[r] = DZero /\ max_print_height_in[r] = DZero)
        /\ pc[r] # "idle" /\ file[r] # NoFile => response[r].status \in {0, 200}
        /\ (Answered(r) /\ (width_px[r] = 0 \/ height_px[r] = 0)) =>
              /\ DOMAIN response[r] =
                    {"status", "width_px", "height_px", "file_size", "format_type",
                     "max_print_width_in", "max_print_height_in", "total_score",
                     "tier", "tier_color", "summary", "issues"}
              /\ response[r].total_score \in 0..100
              /\ response[r].tier # ""
              /\ DOMAIN response[r].issues = {"resolution", "color", "layout", "format"}

\* C13 witness: an image on which sharp threw, answered at 0 by 0
UnreadableImageAnswered ==
    /\ Answered(1) /\ content_is_raster(1)
    /\ response[1].width_px = 0 /\ response[1].height_px = 0
    /\ resolution_score[1] = 20
    /\ response[1].max_print_width_in = DZero
    /\ response[1].issues.resolution = <<"Sharp up to ", 0, " x ", 0, " inches at 300 DPI.">>

\* the sample sampled by the request's layout check has a pixel within 3 pixels
\* of a border with r, g or b below 250
CrowdedWithinThree(sample) ==
    LET W == sample.info.width
        H == sample.info.height
        C == sample.info.channels
    IN  \E x \in 0..(W - 1), y \in 0..(H - 1) :
            /\ x < 3 \/ x >= W - 3 \/ y < 3 \/ y >= H - 3
            /\ \E c \in 1..3 : sample.data[(y * W + x) * C + c] < 250

\* C14: the narrative of a sampled request is the edge-crowding string exactly
\* when some pixel with x < 3, x >= W - 3, y < 3 or y >= H - 3 has r, g or b
\* below 250, whatever the size of the sample, and the default string otherwise
VerdictIsBandOfThree ==
    \A r \in Slots :
        (CheckedAt(r) /\ edge_sample[r] # NoSample) =>
            /\ layout_issue[r] =
                  IF CrowdedWithinThree(edge_sample[r]) THEN EdgeCrowding ELSE GoodMargins
            /\ edgeActivity[r] = CrowdedWithinThree(edge_sample[r])
            /\ EdgeActivity(edge_sample[r]) = CrowdedWithinThree(edge_sample[r])
            /\ Answered(r) => response[r].issues.layout = layout_issue[r]

\* C14 witness: the one pixel off white is the centre of the sample, outside the
\* band: good margins
CentreContentGoodMargins ==
    /\ Answered(1)
    /\ edge_sample[1] =
          Sample(SampleSide, SampleSide, 3, {<<SampleSide \div 2, SampleSide \div 2, 0, 249>>})
    /\ response[1].issues.layout = GoodMargins

ReferenceCase ==
    \A r \in Slots :
        (/\ content_is_raster(r) /\ format_type[r] = "png"
         /\ file_size[r] = 3 * 1024 * 1024
         /\ width_px[r] = 3000 /\ height_px[r] = 4500) =>
            /\ ScoredAt(r) =>
                  /\ resolution_score[r] = 100 /\ size_score[r] = 100
                  /\ color_score[r] = 70 /\ format_score[r] = 100
                  /\ DGeInt(max_print_width_in[r], 10) /\ DLeInt(max_print_width_in[r], 10)
                  /\ DGeInt(max_print_height_in[r], 15) /\ DLeInt(max_print_height_in[r], 15)
            /\ TotalledAt(r) => total_score[r] = 94
            /\ TieredAt(r) => tier[r] = "Print-Ready"
            /\ Answered(r) =>
                  /\ response[r].total_score = 94 /\ response[r].tier = "Print-Ready"
                  /\ response[r].issues.resolution =
                        <<"Sharp up to ", 100, " x ", 150, " inches at 300 DPI.">>

\* C16 witness: the reference asset, answered
ReferenceCaseAnswered ==
    /\ Answered(1) /\ content_is_raster(1) /\ format_type[1] = "png"
    /\ response[1].file_size = 3 * 1024 * 1024
    /\ response[1].width_px = 3000 /\ response[1].height_px = 4500
    /\ response[1].total_score = 94

\* the five tiers, each with its colour and its summary
TierTable ==
    { [tier |-> "Print-Ready", tier_color |-> "#00D1C7",
       summary |-> "Your design is print-ready! Sharp, properly sized, and formatted correctly."],
      [tier |-> "Great", tier_color |-> "#2DE2E6",
       summary |-> "Your design looks good. Minor optimizations could help perfect it."],
      [tier |-> "Needs Optimization", tier_color |-> "#F5A623",
       summary |-> "Your design needs some adjustments before printing for best results."],
      [tier |-> "High Risk", tier_color |-> "#FF008C",
       summary |-> "Your design has significant issues that may cause print problems."],
      [tier |-> "Print Failure Likely", tier_color |-> "#6B7280",
       summary |-> "Your design will likely fail to print properly. Consider recreating at higher quality."] }

\* C17: every total from 0 to 100 has one of the five tiers, and the tier, the
\* colour and the summary of a request are those of one row of the table: a
\* tier name never goes with the colour or the summary of another
TierColourSummaryPaired ==
    \A r \in Slots :
        TieredAt(r) =>
            /\ total_score[r] \in 0..100
            /\ Cardinality({row \in TierTable : row.tier = tier[r]}) = 1
            /\ [tier |-> tier[r], tier_color |-> tier_color[r], summary |-> summary[r]]
                  \in TierTable

\* C17 witness: a total of 75, Great with its own colour and summary
SeventyFiveIsGreat ==
    /\ TieredAt(1) /\ total_score[1] = 75 /\ tier[1] = "Great"
    /\ tier_color[1] = "#2DE2E6"
    /\ summary[1] = "Your design looks good. Minor optimizations could help perfect it."

\* the indices of the pixels of the band among the first n pixels of the sample
\* in row-major order (rows from the top, each from the left)
BandIndicesOfFirst(info, n) ==
    LET InBandNumber(p) == InBand(info, (p - 1) % info.width, (p - 1) \div info.width)
        band == SelectSeq([p \in 1..n |-> p], InBandNumber)
    IN  [i \in DOMAIN band |-> (band[i] - 1) * info.channels]

\* where a scan stands: the pixels read are the pixels of the band before (x, y)
\* in row-major order, and (x, y) itself once it made edgeActivity true; all of
\* them but that last one have r, g and b at 250 or more
ScanInOrder(r) ==
    LET info   == edge_sample[r].info
        passed == scan_y[r] * info.width + scan_x[r]
    IN  /\ reads[r] = BandIndicesOfFirst(info, IF edgeActivity[r] THEN passed + 1 ELSE passed)
        /\ \A i \in DOMAIN reads[r] :
              NonWhite(edge_sample[r].data, reads[r][i]) <=> (edgeActivity[r] /\ i = Len(reads[r]))
        /\ edgeActivity[r] => reads[r] # <<>>

\* once edgeActivity is true it stays true, the loops stand, and nothing is read
StoppedAfterHit(r) ==
    edgeActivity[r] =>
        /\ edgeActivity'[r]
        /\ reads'[r] = reads[r]
        /\ scan_x'[r] = scan_x[r] /\ scan_y'[r] = scan_y[r]

\* C18: the scan reads the pixels of the band in row-major order and stops at
\* the first with a channel below 250: after edgeActivity became true no pixel
\* is read and edgeActivity does not return to false
ScanRowMajorStopsAtFirstHit ==
    /\ [](\A r \in Slots : edge_sample[r] # NoSample => ScanInOrder(r))
    /\ [][\A r \in Slots : StoppedAfterHit(r)]_vars

\* C18 witness: a scan stopped below the first row, after more than one row of
\* white pixels
StoppedBelowFirstRow ==
    /\ pc[1] = "scan" /\ edgeActivity[1]
    /\ scan_y[1] > 0 /\ scan_x[1] > 0
    /\ Len(reads[1]) > edge_sample[1].info.width

\* two requests whose assets differ at most in their edge sample
SameButSample(r, s) ==
    /\ format_type[r] = format_type[s]
    /\ content_is_raster(r) = content_is_raster(s)
    /\ file_size[r] = file_size[s]
    /\ width_px[r] = width_px[s]
    /\ height_px[r] = height_px[s]

\* C19: two answered requests whose assets differ only in the edge sample have
\* the same sub-scores, total, tier, colour, summary, print size and resolution,
\* color and format narratives
NumbersIndependentOfSample ==
    \A r, s \in Slots :
        (Answered(r) /\ Answered(s) /\ SameButSample(r, s)) =>
            /\ resolution_score[r] = resolution_score[s]
            /\ size_score[r] = size_score[s]
            /\ color_score[r] = color_score[s]
            /\ format_score[r] = format_score[s]
            /\ total_score[r] = total_score[s]
            /\ response[r].total_score = response[s].total_score
            /\ response[r].tier = response[s].tier
            /\ response[r].tier_color = response[s].tier_color
            /\ response[r].summary = response[s].summary
            /\ response[r].max_print_width_in = response[s].max_print_width_in
            /\ response[r].max_print_height_in = response[s].max_print_height_in
            /\ response[r].issues.resolution = response[s].issues.resolution
            /\ response[r].issues.color = response[s].issues.color
            /\ response[r].issues.format = response[s].issues.format

\* C19 witness: the same image answered twice, once on a white sample and once
\* on a sample with a black corner: the layout narratives differ
OnlyLayoutDiffers ==
    /\ Answered(1) /\ Answered(2) /\ SameButSample(1, 2)
    /\ edge_sample[1] = Sample(SampleSide, SampleSide, 3, {})
    /\ edge_sample[2] = Sample(SampleSide, SampleSide, 3, {<<0, 0, 0, 0>>})
    /\ response[1].issues.layout = GoodMargins
    /\ response[2].issues.layout = EdgeCrowding
    /\ response[1].total_score = 94

\* the request of the vision handler has its analysis
AnalysedAt(r) == pc[r] \in {"color", "answer"} \/ Answered(r)

TotalBetween36And94 ==
    \A r \in Slots :
        /\ TotalledAt(r) => total_score[r] \in 36..94
        /\ Answered(r) => response[r].total_score \in 36..94

\* C22 witness: a photo.JPG of exactly 5 MiB at 2400 x 3000, answered with 94
HighestTotalAnswered ==
    /\ Answered(1) /\ format_type[1] = "jpg"
    /\ file_size[1] = 5 * 1048576
    /\ width_px[1] = 2400 /\ height_px[1] = 3000
    /\ response[1].total_score = 94

\* C23: an asset with the token "png", "jpg" or "jpeg" totals 41 or more at
\* every width, height and byte size, and is never Print Failure Likely
RasterTokenNeverFails ==
    \A r \in Slots :
        format_type[r] \in {"png", "jpg", "jpeg"} =>
            /\ TotalledAt(r) => total_score[r] >= 41
            /\ TieredAt(r) => tier[r] # "Print Failure Likely"
            /\ Answered(r) => response[r].tier # "Print Failure Likely"

\* C23 witness: a scan.jpeg of 20 MiB that sharp could not measure: 41, High Risk
LowestRasterTokenIsHighRisk ==
    /\ Answered(1) /\ format_type[1] = "jpeg"
    /\ file_size[1] = 20 * 1048576
    /\ width_px[1] = 0 /\ height_px[1] = 0
    /\ response[1].total_score = 41 /\ response[1].tier = "High Risk"

\* C24: a PDF that is not an image totals 89 up to 5 MiB, 85 up to 10 MiB, 77
\* up to 15 MiB and 68 above, and is Great or Needs Optimization, never
\* Print-Ready
NonRasterPdfTotals ==
    \A r \in Slots :
        (format_type[r] = "pdf" /\ ~content_is_raster(r)) =>
            /\ TotalledAt(r) =>
                  total_score[r] =
                      IF file_size[r] <= 5 * 1048576 THEN 89
                      ELSE IF file_size[r] <= 10 * 1048576 THEN 85
                      ELSE IF file_size[r] <= 15 * 1048576 THEN 77
                      ELSE 68
            /\ TieredAt(r) =>
                  /\ tier[r] \in {"Great", "Needs Optimization"}
                  /\ tier[r] = "Needs Optimization" <=> total_score[r] = 68
            /\ Answered(r) => response[r].tier # "Print-Ready"

\* C24 witness: a PDF of exactly 10 MiB: 84.5 rounds to 85, Great
TenMiBPdfIsGreat ==
    /\ Answered(1) /\ format_type[1] = "pdf" /\ ~content_is_raster(1)
    /\ file_size[1] = 10 * 1048576
    /\ response[1].total_score = 85 /\ response[1].tier = "Great"

\* C29: the tier label of getBasicAnalysis is the label of the tier bands for
\* its score, on every branch: 85 and 75 Great, 60 Needs Optimization, 45 High
\* Risk, 25 Print Failure Likely
BasicAnalysisTierInBand ==
    \A r \in Slots :
        (AnalysedAt(r) /\ ~content_is_raster(r)) =>
            /\ aiAnalysis[r].tier = TierOf(aiAnalysis[r].score).tier
            /\ <<aiAnalysis[r].score, aiAnalysis[r].tier>> \in
                  { <<85, "Great">>, <<75, "Great">>, <<60, "Needs Optimization">>,
                    <<45, "High Risk">>, <<25, "Print Failure Likely">> }
            /\ Answered(r) =>
                  response[r].tier = TierOf(response[r].total_score).tier

\* C29 witness: four million pixels short of the 8 x 10 grid, the branch that
\* sets the score and the label only: 75, Great
FourMegapixelsIsGreat ==
    /\ Answered(1) /\ ~content_is_raster(1)
    /\ width_px[1] * height_px[1] >= 4000000
    /\ ~(width_px[1] >= 2400 /\ height_px[1] >= 3000)
    /\ response[1].total_score = 75 /\ response[1].tier = "Great"

\* the column, the row and the channel of the value at index i of a raw Buffer
\* of the given width and channels, pixels in row-major order
ColumnOf(info, i) == (i \div info.channels) % info.width
RowOf(info, i) == (i \div info.channels) \div info.width
ChannelOf(info, i) == i % info.channels

\* every index read, and the two after it, is an index of the Buffer
ReadsInBuffer(r) ==
    LET info == edge_sample[r].info
        last == info.width * info.height * info.channels - 1
    IN  /\ Len(edge_sample[r].data) = last + 1
        /\ \A k \in DOMAIN reads[r] :
              \A i \in {reads[r][k], reads[r][k] + 1, reads[r][k] + 2} : i \in 0..last

\* a step that reads, reads the red, green and blue values of the pixel (x, y)
\* the loops stand at
ReadsPixelOfLoops(r) ==
    (edge_sample[r] # NoSample /\ reads'[r] # reads[r]) =>
        LET info == edge_sample[r].info
            idx  == reads'[r][Len(reads'[r])]
        IN  /\ reads'[r] = Append(reads[r], idx)
            /\ \A c \in 0..2 :
                  /\ ColumnOf(info, idx + c) = scan_x[r]
                  /\ RowOf(info, idx + c) = scan_y[r]
                  /\ ChannelOf(info, idx + c) = c

\* C30: on a sample of W x H pixels of 3 channels or more, idx, idx + 1 and
\* idx + 2 of every read lie in 0 .. W*H*C - 1 and are the first three values
\* of the pixel (x, y) of the loops
ScanReadsInBoundsSamePixel ==
    /\ [](\A r \in Slots :
            (edge_sample[r] # NoSample /\ edge_sample[r].info.channels >= 3) =>
                ReadsInBuffer(r))
    /\ [][\A r \in Slots : ReadsPixelOfLoops(r)]_vars

\* C30 witness: the last pixel of a white sample of 3 channels has been read:
\* idx + 2 is the last index of the Buffer
LastValueOfBufferRead ==
    /\ pc[1] = "scan" /\ edge_sample[1].info.channels = 3
    /\ reads[1] # <<>>
    /\ reads[1][Len(reads[1])] + 2 = Len(edge_sample[1].data) - 1

\* a file handleFileSelect accepts: one of the three types, 10 MiB at most
AcceptedFile(f) ==
    /\ f.type \in { <<"image", "png">>, <<"image", "jpeg">>, <<"application", "pdf">> }
    /\ f.size <= 10485760

\* a step that shows one of the two messages of handleFileSelect
RejectedStep ==
    /\ alerted' # alerted
    /\ alerted' \in {"Please upload a PNG, JPG, or PDF file.", "File size must be under 10MB."}

\* C21: handleFileSelect accepts a file only of type image/png, image/jpeg or
\* application/pdf and of 10 MiB at most; a rejected file leaves file, preview
\* and result as they are; an accepted file becomes the file and the result is
\* cleared
SelectionValidated ==
    /\ [](home_file # NoFile => AcceptedFile(home_file))
    /\ [][RejectedStep => UNCHANGED <<home_file, preview, result>>]_vars
    /\ [][(home_file' # home_file /\ home_file' # NoFile) =>
              (AcceptedFile(home_file') /\ result' = NoResult)]_vars

\* C21 witness: with the result of the poster on the page, a file of more than
\* 10 MiB was offered: the poster and its result are still there
OversizeRejectedResultKept ==
    /\ alerted = "File size must be under 10MB."
    /\ home_file.name = <<"poster", "png">>
    /\ result # NoResult /\ result.format_type = "png"
    /\ preview # NoPreview

\* C25: a file handleFileSelect accepts has a size score of 100 or 85, a total
\* of 53 or more, and is never Print Failure Likely
AcceptedNeverFails ==
    \A r \in Slots :
        /\ file[r] # NoFile => AcceptedFile(file[r])
        /\ ScoredAt(r) => size_score[r] \in {100, 85}
        /\ TotalledAt(r) => total_score[r] >= 53
        /\ TieredAt(r) => tier[r] # "Print Failure Likely"
        /\ Answered(r) => response[r].tier # "Print Failure Likely"

\* C25 witness: an unmeasured image of exactly 10 MiB with no extension: 52.5
\* rounds to 53, High Risk
LowestAcceptedIsHighRisk ==
    /\ Answered(1) /\ format_type[1] = "unknown"
    /\ file_size[1] = 10 * 1048576
    /\ width_px[1] = 0 /\ height_px[1] = 0
    /\ size_score[1] = 85
    /\ response[1].total_score = 53 /\ response[1].tier = "High Risk"

\* C26: a result on the page is the result of the file on the page: there is a
\* file, and the result carries its size and its format token
ResultOfSelectedFile ==
    result # NoResult =>
        /\ home_file # NoFile
        /\ result.file_size = home_file.size
        /\ result.format_type = FormatType(home_file.name)

\* call r of analyzeFile is between its setIsAnalyzing(true) and its finally
InFlight(r) == analyze_pc[r] \in {"fetch", "json"}

\* call r of analyzeFile has run its finally
Settled(r) == analyze_pc[r] \in {"shown", "failed"}

\* C27: every call of analyzeFile that was started comes to its finally, which
\* sets isAnalyzing to false, whether the answer is shown, is not ok, or an
\* await throws; a call that fails leaves the result as it is
AnalysisSettles ==
    /\ \A r \in Slots : InFlight(r) ~> (Settled(r) /\ ~isAnalyzing)
    /\ [][\A r \in Slots :
            /\ (InFlight(r) /\ Settled(r)') => ~isAnalyzing'
            /\ (InFlight(r) /\ analyze_pc'[r] = "failed") => result' = result]_vars

\* C27 witness: the second scan of a file failed: isAnalyzing is false again and
\* the result of the first scan is still on the page
FailedScanKeepsResult ==
    /\ analyze_pc[1] = "shown" /\ analyze_pc[2] = "failed"
    /\ ~isAnalyzing
    /\ result = response[1] /\ result.status = 200

\* C28: at most one call of analyzeFile is in flight: a call starts only while
\* isAnalyzing is false, which is while no other call is in flight
OneRequestInFlight ==
    /\ [](/\ Cardinality({r \in Slots : InFlight(r)}) <= 1
          /\ isAnalyzing <=> \E r \in Slots : InFlight(r))
    /\ [][\A r \in Slots :
            (analyze_pc[r] = "none" /\ InFlight(r)') =>
                (~isAnalyzing /\ \A q \in Slots : ~InFlight(q))]_vars

\* C28 witness: a second call in flight, started after the first had settled
SecondScanAfterFirstSettled ==
    /\ Settled(1) /\ InFlight(2)
    /\ isAnalyzing

====
